---- MODULE Spec2Model ----
(***************************************************************************)
(* BLE bridge between the Renode simulator (link-layer frames over UDP)    *)
(* and the host Bluetooth stack (raw HCI socket or BlueZ over D-Bus).      *)
(* The model follows src/ble_bridge.py (class BLEBridge) and               *)
(* src/ble_bridge_dbus.py (class BLEBridgeDBus) at the level of the bytes  *)
(* read from and written to the sockets.                                   *)
(*                                                                         *)
(* Byte strings are sequences of 0..255.  A 32-bit access address is kept  *)
(* as the pair <<high 16 bits, low 16 bits>>.                              *)
(***************************************************************************)
EXTENDS Integers, Sequences, FiniteSets, TLC

\* ------------------------------------------------------------------------
\* Bounds of the model
\* ------------------------------------------------------------------------

\* Largest event_counter a connection record reaches: caps the number of
\* host ACL packets forwarded on one record.
MaxEventCounter == 2

\* Largest number of idle callbacks pending on the GLib main loop.
MaxIdle == 1

\* Largest number of data PDUs (LLID 1 or 2) forwarded to the host on one
\* connection record.
MaxDataPdus == 2

\* RegisterAdvertisement calls the bus has not answered yet: an advertising
\* PDU is read while fewer than this many replies are outstanding.
MaxPendingReplies == 2

\* ------------------------------------------------------------------------
\* Program constants
\* ------------------------------------------------------------------------

BLE_ADV_ACCESS_ADDR == <<36489, 48854>>      \* 0x8E89BED6
ZERO_ACCESS_ADDR == <<0, 0>>                 \* 0x00000000
ONES_ACCESS_ADDR == <<65535, 65535>>         \* 0xFFFFFFFF

ADV_IND == 0
ADV_NONCONN_IND == 2
SCAN_RSP == 4
CONNECT_IND == 5
ADV_SCAN_IND == 6

DATA_CONT == 1
DATA_START == 2
CONTROL == 3

PKT_TYPE_TX == 1
PKT_TYPE_RX == 2

LL_TERMINATE_IND == 2

\* The value None of an Optional attribute; as a byte string it equals no
\* byte string.
None == <<-1>>

\* ------------------------------------------------------------------------
\* Python byte-string and struct helpers
\* ------------------------------------------------------------------------

Min(a, b) == IF a < b THEN a ELSE b

\* s[a:b] for 0 <= a, 0 <= b
Slice(s, a, b) ==
    IF a >= Min(b, Len(s)) THEN <<>> ELSE SubSeq(s, a + 1, Min(b, Len(s)))

\* s[a:]
SliceFrom(s, a) == Slice(s, a, Len(s))

\* s[i] for a byte string (0-based)
At(s, i) == s[i + 1]

\* struct.pack('<B', x)
pack_B(x) == <<x % 256>>

\* struct.pack('<H', x)
pack_H(x) == <<x % 256, (x \div 256) % 256>>

\* struct.unpack('<H', b)[0]
unpack_H(b) == b[1] + 256 * b[2]

\* struct.pack('<I', aa) of a 32-bit value kept as <<hi16, lo16>>
pack_I(aa) == pack_H(aa[2]) \o pack_H(aa[1])

\* struct.unpack('<I', b)[0] as <<hi16, lo16>>
unpack_I(b) == <<unpack_H(<<b[3], b[4]>>), unpack_H(<<b[1], b[2]>>)>>

\* bit i of x
Bit(x, i) == (x \div (2 ^ i)) % 2

\* x ^ y on 6-bit values
Xor6(x, y) ==
    LET b(i) == (Bit(x, i) + Bit(y, i)) % 2
    IN  b(0) + 2 * b(1) + 4 * b(2) + 8 * b(3) + 16 * b(4) + 32 * b(5)

\* bin(x).count('1') on 6-bit values
popcount(x) == Bit(x, 0) + Bit(x, 1) + Bit(x, 2) + Bit(x, 3) + Bit(x, 4) + Bit(x, 5)

\* d[k] = v on a dict
Put(d, k, v) == [x \in (DOMAIN d) \cup {k} |-> IF x = k THEN v ELSE d[x]]

\* del d[k] on a dict
Del(d, k) == [x \in (DOMAIN d) \ {k} |-> d[x]]

EmptyDict == [x \in {} |-> None]

\* ------------------------------------------------------------------------
\* ConnectionState
\* ------------------------------------------------------------------------

DefaultChannelMap == <<255, 255, 255, 255, 31>>

\* ConnectionState._build_channel_list
build_channel_list(channel_map) ==
    LET used(i) == Bit(channel_map[(i \div 8) + 1], i % 8) = 1
        all == [k \in 1..37 |-> k - 1]
        l == SelectSeq(all, used)
    IN  IF l = <<>> THEN all ELSE l

InSeq(x, s) == \E k \in 1..Len(s) : s[k] = x

\* A hop that counts the event and stays on the channel.
MutNextChannelStays(conn) ==
    [conn EXCEPT !.event_counter = conn.event_counter + 1]

\* A hop that takes the candidate channel whether the channel is used or not.
MutNextChannelKeepsUnmapped(conn) ==
    [conn EXCEPT !.current_channel = (conn.current_channel + conn.hop_increment) % 37,
                 !.event_counter = conn.event_counter + 1]

\* ConnectionState.next_channel: the record after the hop; the value the
\* method returns is the current_channel of that record.
next_channel(conn) ==
    LET unmapped == (conn.current_channel + conn.hop_increment) % 37
        chan == IF InSeq(unmapped, conn.unmapped_channels)
                THEN unmapped
                ELSE conn.unmapped_channels[(unmapped % Len(conn.unmapped_channels)) + 1]
    IN  [conn EXCEPT !.current_channel = chan,
                     !.event_counter = conn.event_counter + 1]

\* The dataclass constructor as _create_connection calls it: the fields it
\* passes, the defaults for the others, then __post_init__.
ConnectionState(conn_handle, access_addr, crc_init, init_addr, init_addr_type, a_addr, interval, latency, timeout, hop_increment) ==
    [ conn_handle |-> conn_handle,
      access_addr |-> access_addr,
      crc_init |-> crc_init,
      init_addr |-> init_addr,
      init_addr_type |-> init_addr_type,
      adv_addr |-> a_addr,
      adv_addr_type |-> 0,
      channel_map |-> DefaultChannelMap,
      hop_increment |-> hop_increment,
      unmapped_channels |-> build_channel_list(DefaultChannelMap),
      interval |-> interval,
      latency |-> latency,
      timeout |-> timeout,
      win_size |-> 1,
      win_offset |-> 0,
      tx_sn |-> 0,
      tx_nesn |-> 0,
      rx_sn |-> 0,
      is_connected |-> TRUE,
      current_channel |-> 0,
      event_counter |-> 0 ]

\* ------------------------------------------------------------------------
\* Access-address generator
\* ------------------------------------------------------------------------

\* Values random.randint(0, 0xFFFFFFFF) is taken to return: the advertising
\* address, all zeros, all ones, 0x00000001 (no transition in the top six
\* bits), 0xFFFF0000 (one transition), and two addresses the checks accept,
\* 0x50651234 and 0xA9C30001.
AADraws ==
    { BLE_ADV_ACCESS_ADDR, ZERO_ACCESS_ADDR, ONES_ACCESS_ADDR,
      <<0, 1>>, <<65535, 0>>, <<20581, 4660>>, <<43459, 1>> }

\* (aa >> 26) & 0x3F
msb6(aa) == (aa[1] \div 1024) % 64

\* bin(msb6 ^ (msb6 >> 1)).count('1')
transitions(aa) == popcount(Xor6(msb6(aa), msb6(aa) \div 2))

\* The loop body without the comparison with the advertising access address.
MutAcceptsNoAdvCheck(aa) ==
    /\ transitions(aa) >= 2
    /\ ~(aa = ZERO_ACCESS_ADDR \/ aa = ONES_ACCESS_ADDR)

\* One pass of the loop body of _generate_access_address returns aa
\* (FALSE: the draw is rejected and the loop continues).
accepts(aa) ==
    /\ aa # BLE_ADV_ACCESS_ADDR
    /\ transitions(aa) >= 2
    /\ ~(aa = ZERO_ACCESS_ADDR \/ aa = ONES_ACCESS_ADDR)

\* The values _generate_access_address can return.
generate_access_address == {aa \in AADraws : accepts(aa)}

\* random.randint(0, 0xFFFFFF) for crc_init
CrcDraws == {5592405}

\* random.randint(5, 16) for hop_increment, in environment e
HopDraws(e) == IF e = "data" THEN {5, 16} ELSE {5}

\* ------------------------------------------------------------------------
\* State
\* ------------------------------------------------------------------------

VARIABLES
    script,                \* which program runs: "ble_bridge" or "ble_bridge_dbus"
    dry_run,               \* self.dry_run
    hci_sock,              \* TRUE when self.hci_sock holds a socket
    dbus_manager,          \* TRUE when self.dbus_manager holds a manager
    advertising_enabled,   \* self.advertising_enabled
    current_adv_data,      \* self.current_adv_data / self.current_ad_data
    adv_addr,              \* self.adv_addr
    connections,           \* self.connections: conn_handle -> ConnectionState
    access_addr_map,       \* self.access_addr_map: access address -> conn_handle
    glib_idle,             \* callbacks posted with GLib.idle_add, not yet run
    running,               \* the event loop has not died on an exception
    pc,                    \* position of the main thread
    cur,                   \* conn_handle of the record the running handler holds
    renode_tx,             \* datagrams the running (last) handler sent to Renode
    hci_tx,                \* packets the running (last) handler wrote to the HCI socket
    adv_updates,           \* AD data the running (last) handler handed to the host stack
    env,                   \* the environment of the run
    event,                 \* which input the running (last) handler read
    prev_ad,               \* AD data of the last advertising PDU before that input
    hist,                  \* per live record: what was forwarded on it so far, and
                           \* the SN bit of the last data-channel PDU the simulator
                           \* sent on its access address (-1: none)
    terminated,            \* handle and access address of the records terminated
    rx,                    \* the bytes the running (last) handler read
    hci_write_failed,      \* _forward_data_to_hci caught a failed write in that handler
    advertisement,         \* <<the advertisement object's properties>>, <<>> without one
    ad_registered,         \* DBusBLEManager._ad_registered
    pending_replies,       \* RegisterAdvertisement calls whose reply is not dispatched yet
    bus_calls,             \* D-Bus method calls the running (last) handler issued
    open_registers,        \* RegisterAdvertisement calls that did not raise, since the
                           \* last UnregisterAdvertisement: 0, 1, or 2 for two or more
    aux_wrote              \* the attributes the auxiliary thread has assigned

bridgeVars == <<advertising_enabled, current_adv_data, adv_addr, connections, access_addr_map>>
modeVars == <<script, env, dry_run, hci_sock, dbus_manager>>
vars == << script, env, dry_run, hci_sock, dbus_manager, advertising_enabled,
           current_adv_data, adv_addr, connections, access_addr_map, glib_idle,
           running, pc, cur, renode_tx, hci_tx, adv_updates, event, prev_ad, hist, terminated,
           rx, hci_write_failed, advertisement, ad_registered, pending_replies,
           bus_calls, open_registers, aux_wrote >>
dbusVars == <<advertisement, ad_registered, pending_replies, bus_calls, open_registers, aux_wrote>>

\* ------------------------------------------------------------------------
\* What the two peers send: the datagrams of the simulator and the packets
\* of the host stack, as bytes, each with a description of what it is.
\* ------------------------------------------------------------------------

\* Connection handles the host reports and addresses ACL data to.
EventHandles == {64, 65}

\* A Connection_Handle field, two bytes of the event, with bit 12 set: 0x1040.
ReservedBitHandle == 4160

PeerAddr == <<17, 34, 51, 68, 85, 102>>
AdvAddr == <<1, 2, 3, 4, 5, 6>>
OtherAdvAddr == <<6, 5, 4, 3, 2, 1>>

\* The advertiser of AD data ad: a second device sends the empty AD data.
AdvAddrOf(ad) == IF ad = <<>> THEN OtherAdvAddr ELSE AdvAddr

\* AD-data byte strings of the advertiser.
AdDatas == { <<>>, <<2, 1, 6>>, <<2, 1, 6, 3, 3, 246, 255>> }

\* L2CAP payloads.
Payloads == { <<>>, <<170, 187>> }

\* 255 zero bytes: behind the serial number, an L2CAP payload of 256 bytes.
LongRest == [k \in 1..255 |-> 0]

\* What follows the serial number in the payload of a data PDU.
PduRests == { <<>>, <<2, 3>> }

\* Payloads of LL control PDUs: empty, LL_TERMINATE_IND, LL_VERSION_IND.
CtrlPayloads == { <<>>, <<2, 19>>, <<12, 9>> }

\* Access addresses the simulator transmits data PDUs on: 0x50651234,
\* 0xA9C30001 and 0x00000001.
SimAccessAddrs == { <<20581, 4660>>, <<43459, 1>>, <<0, 1>> }

SimUdp(pkt_type, channel, length, frame) ==
    <<pkt_type, channel, length % 256, length \div 256>> \o frame

SimAdvFrame(pdu_type, pdu_length, payload) ==
    <<214, 190, 137, 142, pdu_type, pdu_length>> \o payload \o <<0, 0, 0>>

SimDataFrame(aa, llid, nesn, sn, payload) ==
    << aa[2] % 256, aa[2] \div 256, aa[1] % 256, aa[1] \div 256,
       llid + 4 * nesn + 8 * sn, Len(payload) >> \o payload \o <<0, 0, 0>>

\* The environment the bridge runs in, fixed for a run: "adv" (an advertiser
\* and a host that connects on one handle), "table" (a host that connects and
\* disconnects on two handles, a simulator that terminates), "data" (one
\* connection carrying data in both directions), "reserved" (a host whose
\* Connection Complete reports a handle with a bit above the twelfth set).
Envs == {"adv", "table", "data", "reserved"}

\* Advertising PDUs that carry an advertiser address and AD data.
SimAdvDatagrams(types, ads) ==
    { [ data |-> SimUdp(PKT_TYPE_TX, 37, Len(ad) + 15,
                        SimAdvFrame(t, Len(ad) + 6, AdvAddrOf(ad) \o ad)),
        what |-> [kind |-> "adv", key |-> ad] ] :
      t \in types, ad \in ads }

\* Other advertising-channel PDUs: a scan response, a CONNECT_IND, a PDU
\* shorter than an address, and a PDU whose length byte overruns the frame.
SimOtherAdvDatagrams ==
    { [ data |-> SimUdp(PKT_TYPE_TX, 37, 18, SimAdvFrame(SCAN_RSP, 9, OtherAdvAddr \o <<2, 10, 0>>)),
        what |-> [kind |-> "scan_rsp", key |-> None] ],
      [ data |-> SimUdp(PKT_TYPE_TX, 37, 18, SimAdvFrame(CONNECT_IND, 9, AdvAddr \o <<2, 1, 6>>)),
        what |-> [kind |-> "adv_other", key |-> None] ],
      [ data |-> SimUdp(PKT_TYPE_TX, 37, 12, SimAdvFrame(ADV_IND, 3, <<2, 1, 6>>)),
        what |-> [kind |-> "adv_short", key |-> None] ],
      [ data |-> SimUdp(PKT_TYPE_TX, 37, 18, SimAdvFrame(ADV_IND, 13, AdvAddr \o <<2, 1, 4>>)),
        what |-> [kind |-> "adv_overrun", key |-> None] ] }

\* A datagram whose length field announces five bytes more than follow the
\* header: an ADV_IND with the address and AD data 02 01 06.
SimTruncatedDatagrams ==
    { [ data |-> SimUdp(PKT_TYPE_TX, 37, 23, SimAdvFrame(ADV_IND, 9, AdvAddr \o <<2, 1, 6>>)),
        what |-> [kind |-> "adv", key |-> <<2, 1, 6>>] ] }

\* AD data of a device named MatterDev that offers the 16-bit service fff6:
\* flags, the service list, and the name in a structure of length 10 (the
\* type byte and the nine bytes of the name) or of length 11 (one more byte
\* than follows).
MatterDevAd(name_length) ==
    <<2, 1, 6, 3, 3, 246, 255>> \o <<name_length, 9, 77, 97, 116, 116, 101, 114, 68, 101, 118>>

\* An ADV_IND with TxAdd set that carries the MatterDev AD data: the
\* datagram and the PDU announce udp_length and pdu_length bytes.
SimMatterDevDatagram(udp_length, pdu_length, name_length) ==
    SimUdp(PKT_TYPE_TX, 37, udp_length,
           SimAdvFrame(64 + ADV_IND, pdu_length, AdvAddr \o MatterDevAd(name_length)))

\* The MatterDev advertisement with every length as it is (33 bytes of
\* frame, 24 of PDU payload), the same with the name structure one byte too
\* long, and the same with the two frame lengths at 38 as well.
SimMatterDevDatagrams ==
    { [ data |-> SimMatterDevDatagram(33, 24, 10),
        what |-> [kind |-> "adv", key |-> MatterDevAd(10)] ],
      [ data |-> SimMatterDevDatagram(33, 24, 11),
        what |-> [kind |-> "adv", key |-> MatterDevAd(11)] ],
      [ data |-> SimMatterDevDatagram(38, 38, 11),
        what |-> [kind |-> "adv_overrun", key |-> None] ] }

\* The record a data PDU on access address aa reaches, if any.
Reached(aa) ==
    IF aa \in DOMAIN access_addr_map /\ access_addr_map[aa] \in DOMAIN hist
    THEN {access_addr_map[aa]}
    ELSE {}

\* The serial number of the next data PDU on access address aa: the
\* simulator numbers the data PDUs of a connection 1, 2, ... in their first
\* payload byte, and sends a PDU that did not reach the host again.
PduSerial(aa) ==
    IF Reached(aa) = {} THEN 1 ELSE Len(hist[access_addr_map[aa]].acl_written) + 1

\* Data-channel PDUs with LLID 0, 1 or 2: the serial number, then rest.
SimDataDatagrams(aas, llids, sns, rests) ==
    { [ data |-> SimUdp(PKT_TYPE_TX, 0, Len(r) + 10,
                        SimDataFrame(aa, llid, 0, sn, <<PduSerial(aa)>> \o r)),
        what |-> [kind |-> IF llid = 0 THEN "data_reserved" ELSE "data", key |-> aa] ] :
      aa \in {x \in aas : PduSerial(x) <= MaxDataPdus},
      llid \in llids, sn \in sns, r \in rests }

\* LL control PDUs.
SimCtrlDatagrams(aas, sns, payloads) ==
    { [ data |-> SimUdp(PKT_TYPE_TX, 0, Len(p) + 9, SimDataFrame(aa, CONTROL, 0, sn, p)),
        what |-> [kind |-> IF Len(p) >= 1 /\ p[1] = 2 THEN "ll_terminate" ELSE "ll_control",
                  key |-> aa] ] :
      aa \in aas, sn \in sns, p \in payloads }

\* Datagrams the frame parser rejects: three bytes, the bridge's own packet
\* type, a BLE frame of five bytes.
SimMalformedDatagrams ==
    { [ data |-> <<PKT_TYPE_TX, 37, 0>>, what |-> [kind |-> "malformed", key |-> None] ],
      [ data |-> SimUdp(PKT_TYPE_RX, 37, 15, SimAdvFrame(ADV_IND, 6, AdvAddr)),
        what |-> [kind |-> "malformed", key |-> None] ],
      [ data |-> SimUdp(PKT_TYPE_TX, 37, 5, <<214, 190, 137, 142, 0>>),
        what |-> [kind |-> "malformed", key |-> None] ] }

\* What the simulator sends in environment e.
RenodeDatagrams(e) ==
    IF e = "adv"
    THEN SimAdvDatagrams({ADV_IND, ADV_NONCONN_IND, ADV_SCAN_IND}, AdDatas)
         \cup SimOtherAdvDatagrams \cup SimMalformedDatagrams \cup SimTruncatedDatagrams
         \cup SimMatterDevDatagrams
         \cup SimDataDatagrams({<<20581, 4660>>}, {DATA_START}, {0}, {<<>>})
    ELSE IF e = "table"
    THEN SimCtrlDatagrams(SimAccessAddrs, {0}, {<<2, 19>>})
    ELSE IF e = "reserved"
    THEN SimDataDatagrams({<<20581, 4660>>, <<43459, 1>>}, {DATA_START}, {0}, {<<>>})
    ELSE SimAdvDatagrams({ADV_IND}, {<<2, 1, 6>>})
         \cup SimDataDatagrams({<<20581, 4660>>, <<43459, 1>>},
                               {0, DATA_CONT, DATA_START}, {0, 1}, PduRests)
         \cup SimCtrlDatagrams({<<20581, 4660>>, <<43459, 1>>}, {0, 1}, CtrlPayloads)

\* HCI event packet: LE Meta, subevent 0x01 or 0x0A.
HostLeConnComplete(subevent, status, handle) ==
    LET head == <<status, handle % 256, handle \div 256, 1, 0>> \o PeerAddr
        rpa == IF subevent = 10 THEN <<0, 0, 0, 0, 0, 0, 0, 0, 0, 0, 0, 0>> ELSE <<>>
        params == <<subevent>> \o head \o rpa \o <<24, 0, 0, 0, 200, 0, 0>>
    IN  <<4, 62, Len(params)>> \o params

HostDisconnectionComplete(handle) ==
    <<4, 5, 4, 0, handle % 256, handle \div 256, 19>>

HostAcl(handle, pb_flag, payload) ==
    LET hf == handle + 4096 * pb_flag
    IN  <<2, hf % 256, hf \div 256, Len(payload) % 256, Len(payload) \div 256>> \o payload

HostConnCompletes(subs, statuses, handles) ==
    { [ data |-> HostLeConnComplete(sub, st, h),
        what |-> [kind |-> IF st = 0 THEN "conn_complete" ELSE "conn_failed", key |-> h] ] :
      sub \in subs, st \in statuses, h \in handles }

HostDisconnections(handles) ==
    { [ data |-> HostDisconnectionComplete(h),
        what |-> [kind |-> "disconnection_complete", key |-> h] ] : h \in handles }

\* The serial number of the next ACL packet for handle h: the host numbers
\* the ACL packets of a connection 1, 2, ... in their first payload byte.
AclSerial(h) == IF h \in DOMAIN hist THEN Len(hist[h].ll_sent) + 1 ELSE 1

\* ACL data packets: the serial number, then rest.
HostAcls(handles, pbs, rests) ==
    { [ data |-> HostAcl(h, pb, <<AclSerial(h)>> \o r), what |-> [kind |-> "acl", key |-> h] ] :
      h \in handles, pb \in pbs, r \in rests }

\* Packets the HCI parser drops: a truncated LE Meta event, a Command
\* Complete event, a truncated ACL header.
HostOtherPackets ==
    { [ data |-> <<4, 62, 9, 1, 0, 64, 0, 1, 0, 17, 34, 51>>,
        what |-> [kind |-> "hci_other", key |-> None] ],
      [ data |-> <<4, 14, 4, 1, 8, 32, 0>>, what |-> [kind |-> "hci_other", key |-> None] ],
      [ data |-> <<2, 64, 32>>, what |-> [kind |-> "hci_other", key |-> None] ] }

\* What the host stack sends in environment e.
HciPackets(e) ==
    IF e = "adv"
    THEN HostConnCompletes({1}, {0}, {64}) \cup HostDisconnections({64})
    ELSE IF e = "table"
    THEN HostConnCompletes({1, 10}, {0, 62}, EventHandles)
         \cup HostDisconnections(EventHandles) \cup HostOtherPackets
    ELSE IF e = "reserved"
    THEN HostConnCompletes({1}, {0}, {ReservedBitHandle})
         \cup HostDisconnections({ReservedBitHandle})
         \cup HostAcls({ReservedBitHandle % 4096}, {2}, {<<170, 187>>})
    ELSE HostConnCompletes({1}, {0}, {64}) \cup HostDisconnections({64})
         \cup HostAcls(EventHandles, 0..3, Payloads)
         \cup HostAcls({64}, {2}, {LongRest})

\* ------------------------------------------------------------------------
\* Construction
\* ------------------------------------------------------------------------

\* A constructor that opens the raw HCI socket beside the D-Bus manager.
MutBridgeInitOpensHciBesideDBus(arg_dry_run, arg_use_dbus, dbus_available, dbus_ok, hci_ok) ==
    LET try_dbus == ~arg_dry_run /\ arg_use_dbus /\ dbus_available
        manager == try_dbus /\ dbus_ok
        try_hci == ~arg_dry_run
    IN  [ dry_run |-> arg_dry_run \/ (try_hci /\ ~hci_ok),
          hci_sock |-> try_hci /\ hci_ok,
          dbus_manager |-> manager ]

\* BLEBridge.__init__: the transport it ends with, from its arguments
\* (dry_run, use_dbus) and from what the host offers (the D-Bus modules
\* import, DBusBLEManager() succeeds, _open_hci_socket() succeeds).
bridge_init(arg_dry_run, arg_use_dbus, dbus_available, dbus_ok, hci_ok) ==
    LET try_dbus == ~arg_dry_run /\ arg_use_dbus /\ dbus_available
        manager == try_dbus /\ dbus_ok
        use_dbus == IF try_dbus /\ ~dbus_ok THEN FALSE ELSE arg_use_dbus
        try_hci == ~arg_dry_run /\ (~use_dbus \/ ~manager)
    IN  [ dry_run |-> arg_dry_run \/ (try_hci /\ ~hci_ok),
          hci_sock |-> try_hci /\ hci_ok,
          dbus_manager |-> manager ]

\* BLEBridgeDBus.__init__: dry_run from the argument, the import and
\* _setup_bluez(); the D-Bus interface is held when not dry_run.
bridge_dbus_init(arg_dry_run, dbus_available, setup_ok) ==
    LET dry0 == arg_dry_run \/ ~dbus_available
        dry == dry0 \/ ~setup_ok
    IN  [ dry_run |-> dry, hci_sock |-> FALSE, dbus_manager |-> ~dry ]

\* Both constructors bind the UDP receive socket before anything else and
\* outside any try: when bind raises, the constructor raises with dry_run
\* as far as it was assigned (the argument; in ble_bridge_dbus.py true as
\* well without the D-Bus modules) and no transport.
bind_failed(arg_dry_run, dbus_available) ==
    [ dry_run |-> IF script = "ble_bridge" THEN arg_dry_run
                  ELSE arg_dry_run \/ ~dbus_available,
      hci_sock |-> FALSE,
      dbus_manager |-> FALSE ]

Init ==
    /\ script \in {"ble_bridge", "ble_bridge_dbus"}
    /\ \E a, b, c, d, e, bind_ok \in BOOLEAN :
         LET m == IF ~bind_ok
                  THEN bind_failed(a, c)
                  ELSE IF script = "ble_bridge"
                  THEN bridge_init(a, b, c, d, e)
                  ELSE bridge_dbus_init(a, c, d)
         IN  /\ dry_run = m.dry_run
             /\ hci_sock = m.hci_sock
             /\ dbus_manager = m.dbus_manager
             /\ running = bind_ok
             /\ pc = IF bind_ok THEN "select" ELSE "init_failed"
    /\ advertising_enabled = FALSE
    /\ current_adv_data = None
    /\ adv_addr = <<0, 0, 0, 0, 0, 0>>
    /\ connections = EmptyDict
    /\ access_addr_map = EmptyDict
    /\ glib_idle = <<>>
    /\ cur = None
    /\ renode_tx = <<>>
    /\ hci_tx = <<>>
    /\ adv_updates = <<>>
    /\ env \in IF hci_sock THEN Envs ELSE {"adv"}
    /\ event = [kind |-> "none", key |-> None]
    /\ prev_ad = None
    /\ rx = <<>>
    /\ hci_write_failed = FALSE
    /\ hist = EmptyDict
    /\ terminated = {}
    /\ advertisement = <<>>
    /\ ad_registered = FALSE
    /\ pending_replies = 0
    /\ bus_calls = <<>>
    /\ open_registers = 0
    /\ aux_wrote = {}

\* ------------------------------------------------------------------------
\* Frames the bridge builds
\* ------------------------------------------------------------------------

\* _send_to_renode: the datagram
send_to_renode(channel, frame) ==
    <<PKT_TYPE_RX, channel>> \o pack_H(Len(frame)) \o frame

\* A CONNECT_IND with Timeout ahead of Latency in LLData.
MutConnectIndFrameFieldOrder(conn) ==
    LET ll_data == pack_I(conn.access_addr)
                   \o Slice(pack_H(conn.crc_init % 65536)
                            \o pack_H(conn.crc_init \div 65536), 0, 3)
                   \o pack_B(conn.win_size)
                   \o pack_H(conn.win_offset)
                   \o pack_H(conn.interval)
                   \o pack_H(conn.timeout)
                   \o pack_H(conn.latency)
                   \o conn.channel_map
                   \o pack_B(conn.hop_increment % 32)
        pdu_payload == conn.init_addr \o conn.adv_addr \o ll_data
        pdu_header == CONNECT_IND + 64 * conn.init_addr_type
    IN  pack_I(BLE_ADV_ACCESS_ADDR)
        \o <<pdu_header, Len(pdu_payload)>>
        \o pdu_payload
        \o <<0, 0, 0>>

\* _send_connect_ind_to_renode: the BLE frame
connect_ind_frame(conn) ==
    LET ll_data == pack_I(conn.access_addr)
                   \o Slice(pack_H(conn.crc_init % 65536)
                            \o pack_H(conn.crc_init \div 65536), 0, 3)
                   \o pack_B(conn.win_size)
                   \o pack_H(conn.win_offset)
                   \o pack_H(conn.interval)
                   \o pack_H(conn.latency)
                   \o pack_H(conn.timeout)
                   \o conn.channel_map
                   \o pack_B(conn.hop_increment % 32)
        pdu_payload == conn.init_addr \o conn.adv_addr \o ll_data
        pdu_header == CONNECT_IND + 64 * conn.init_addr_type
    IN  pack_I(BLE_ADV_ACCESS_ADDR)
        \o <<pdu_header, Len(pdu_payload)>>
        \o pdu_payload
        \o <<0, 0, 0>>

\* _send_data_to_renode: LLID from the packet-boundary flag
llid_of_pb_flag(pb_flag) == IF pb_flag \in {0, 2} THEN DATA_START ELSE DATA_CONT

\* A data frame that carries the header of the ACL payload, not the payload.
MutDataFrameNoPayload(conn, pb_flag, payload) ==
    LET header == llid_of_pb_flag(pb_flag)
                  + 4 * (conn.tx_nesn % 2)
                  + 8 * (conn.tx_sn % 2)
                  + 256 * (Len(payload) % 256)
    IN  pack_I(conn.access_addr) \o pack_H(header) \o <<0, 0, 0>>

\* A data frame with the MD bit set.
MutDataFrameMoreData(conn, pb_flag, payload) ==
    LET header == llid_of_pb_flag(pb_flag)
                  + 4 * (conn.tx_nesn % 2)
                  + 8 * (conn.tx_sn % 2)
                  + 16
                  + 256 * (Len(payload) % 256)
    IN  pack_I(conn.access_addr) \o pack_H(header) \o payload \o <<0, 0, 0>>

\* _send_data_to_renode: the BLE frame
data_frame(conn, pb_flag, payload) ==
    LET header == llid_of_pb_flag(pb_flag)
                  + 4 * (conn.tx_nesn % 2)
                  + 8 * (conn.tx_sn % 2)
                  + 256 * (Len(payload) % 256)
    IN  pack_I(conn.access_addr) \o pack_H(header) \o payload \o <<0, 0, 0>>

\* An LL_TERMINATE_IND without its error code.
MutLlTerminateFrameNoReason(conn) ==
    LET payload == <<LL_TERMINATE_IND>>
        header == CONTROL
                  + 4 * (conn.tx_nesn % 2)
                  + 8 * (conn.tx_sn % 2)
                  + 256 * (Len(payload) % 256)
    IN  pack_I(conn.access_addr) \o pack_H(header) \o payload \o <<0, 0, 0>>

\* _send_ll_terminate_to_renode: the BLE frame
ll_terminate_frame(conn) ==
    LET payload == <<LL_TERMINATE_IND, 19>>
        header == CONTROL
                  + 4 * (conn.tx_nesn % 2)
                  + 8 * (conn.tx_sn % 2)
                  + 256 * (Len(payload) % 256)
    IN  pack_I(conn.access_addr) \o pack_H(header) \o payload \o <<0, 0, 0>>

\* An ACL packet without the packet-boundary flag.
MutHciAclPacketNoPbFlag(conn, llid, payload) ==
    <<2>> \o pack_H(conn.conn_handle % 4096) \o pack_H(Len(payload)) \o payload

\* _forward_data_to_hci: the HCI ACL packet
hci_acl_packet(conn, llid, payload) ==
    LET pb_flag == IF llid = DATA_START THEN 2 ELSE 1
        handle_flags == (conn.conn_handle % 4096) + 4096 * pb_flag
    IN  <<2>> \o pack_H(handle_flags) \o pack_H(Len(payload)) \o payload

\* _send_hci_command: the packet
hci_command(ogf, ocf, params) ==
    <<1>> \o pack_H(ogf * 1024 + ocf) \o pack_B(Len(params)) \o params

\* data[:31].ljust(31, b'\x00') behind its length byte
adv_data_params(data) ==
    LET cut == Slice(data, 0, 31)
    IN  pack_B(Min(Len(data), 31)) \o cut \o [k \in 1..(31 - Len(cut)) |-> 0]

\* _set_hci_advertising_params: the parameter block
adv_params == <<0, 1, 0, 1, 0, 0, 0, 0, 0, 0, 0, 0, 0, 7, 0>>

\* The HCI commands _handle_adv_ind issues for new AD data, in order: none
\* in dry-run; the advertising data, then, when advertising is not yet
\* enabled, the parameters and the enable.
hci_adv_commands(ad) ==
    IF dry_run \/ ~hci_sock
    THEN <<>>
    ELSE <<hci_command(8, 8, adv_data_params(ad))>>
         \o (IF advertising_enabled
             THEN <<>>
             ELSE <<hci_command(8, 6, adv_params), hci_command(8, 10, <<1>>)>>)

\* ------------------------------------------------------------------------
\* Connection table
\* ------------------------------------------------------------------------

\* self.connections.get(conn_handle): the record, or nothing
lookup_by_handle(conns, conn_handle) ==
    IF conn_handle \in DOMAIN conns THEN {conns[conn_handle]} ELSE {}

\* The look-up of _handle_data_frame: access_addr_map, then connections
lookup_by_aa(conns, aamap, access_addr) ==
    IF access_addr \in DOMAIN aamap
    THEN lookup_by_handle(conns, aamap[access_addr])
    ELSE {}

\* The new record filed under its handle only.
MutCreateNoAaIndex(conns, aamap, conn) ==
    [ connections |-> Put(conns, conn.conn_handle, conn),
      access_addr_map |-> aamap ]

\* _create_connection: the two assignments that file the new record
create_connection(conns, aamap, conn) ==
    [ connections |-> Put(conns, conn.conn_handle, conn),
      access_addr_map |-> Put(aamap, conn.access_addr, conn.conn_handle) ]

\* A clean-up that leaves the record in connections.
MutCleanupKeepsRecord(conns, aamap, conn) ==
    [ access_addr_map |-> IF conn.access_addr \in DOMAIN aamap
                          THEN Del(aamap, conn.access_addr)
                          ELSE aamap,
      connections |-> conns ]

\* A clean-up that leaves the entry in access_addr_map.
MutCleanupKeepsAaEntry(conns, aamap, conn) ==
    [ access_addr_map |-> aamap,
      connections |-> IF conn.conn_handle \in DOMAIN conns
                      THEN Del(conns, conn.conn_handle)
                      ELSE conns ]

\* _handle_disconnect: the clean-up after the LL_TERMINATE_IND is sent
disconnect_cleanup(conns, aamap, conn) ==
    [ access_addr_map |-> IF conn.access_addr \in DOMAIN aamap
                          THEN Del(aamap, conn.access_addr)
                          ELSE aamap,
      connections |-> IF conn.conn_handle \in DOMAIN conns
                      THEN Del(conns, conn.conn_handle)
                      ELSE conns ]

\* A received data PDU acknowledged without the mask to one bit.
MutAckReceivedNoMask(conn, sn) ==
    [conn EXCEPT !.rx_sn = sn, !.tx_nesn = sn + 1]

\* A received data PDU that moves the transmit sequence number as well.
MutAckReceivedMovesTxSn(conn, sn) ==
    [conn EXCEPT !.rx_sn = sn, !.tx_nesn = (sn + 1) % 2, !.tx_sn = sn]

\* A received data PDU that also moves the record to its next channel.
MutAckReceivedHops(conn, sn) ==
    [conn EXCEPT !.rx_sn = sn, !.tx_nesn = (sn + 1) % 2,
                 !.current_channel = next_channel(conn).current_channel]

\* _handle_data_frame: the sequence numbers after a received data PDU
ack_received(conn, sn) ==
    [conn EXCEPT !.rx_sn = sn, !.tx_nesn = (sn + 1) % 2]

\* _send_data_to_renode: the record after the frame is built
after_data_sent(conn) ==
    next_channel([conn EXCEPT !.tx_sn = (conn.tx_sn + 1) % 2])

\* ------------------------------------------------------------------------
\* How a handler ends
\* ------------------------------------------------------------------------

\* back in select() of the main loop
ToSelect == pc' = "select" /\ cur' = None /\ UNCHANGED running

\* an exception no handler catches leaves run(): the process ends
Crash == pc' = "crashed" /\ cur' = None /\ running' = FALSE

NoOutput == renode_tx' = <<>> /\ hci_tx' = <<>> /\ adv_updates' = <<>> /\ hci_write_failed' = FALSE

\* an early return: nothing written, nothing sent
Return == UNCHANGED bridgeVars /\ NoOutput /\ ToSelect

\* self.renode_tx_sock.sendto() as the last statement of a handler: the
\* datagram leaves, or sendto raises
SendLast(packet) ==
    \E ok \in BOOLEAN :
        IF ok THEN renode_tx' = Append(renode_tx, packet) /\ ToSelect
              ELSE UNCHANGED renode_tx /\ Crash

\* ------------------------------------------------------------------------
\* Advertisement descriptors (the D-Bus advertisement objects)
\* ------------------------------------------------------------------------

HexDigit(n) ==
    <<"0", "1", "2", "3", "4", "5", "6", "7", "8", "9", "a", "b", "c", "d", "e", "f">>[n + 1]

\* f'{b:02x}'
Hex2(b) == HexDigit((b \div 16) % 16) \o HexDigit(b % 16)

\* f'{uuid16:04x}' of the little-endian 16-bit value at the head of data
Hex4LE(data) == Hex2(data[2]) \o Hex2(data[1])

\* bytes.hex()
RECURSIVE HexStr(_)
HexStr(data) == IF data = <<>> THEN "" ELSE Hex2(Head(data)) \o HexStr(Tail(data))

\* data[::-1]
RECURSIVE Reverse(_)
Reverse(data) == IF data = <<>> THEN <<>> ELSE Append(Reverse(Tail(data)), Head(data))

\* The text of a 128-bit UUID from its 16 bytes as they are advertised.
Uuid128(data) ==
    LET uuid_bytes == Reverse(data)
    IN  HexStr(Slice(uuid_bytes, 0, 4)) \o "-" \o HexStr(Slice(uuid_bytes, 4, 6)) \o "-"
        \o HexStr(Slice(uuid_bytes, 6, 8)) \o "-" \o HexStr(Slice(uuid_bytes, 8, 10)) \o "-"
        \o HexStr(Slice(uuid_bytes, 10, 16))

\* 'Matter Device' and 'MatterDev' as code points
MatterDeviceName == <<77, 97, 116, 116, 101, 114, 32, 68, 101, 118, 105, 99, 101>>
MATTER_SERVICE_UUID == "0000fff6-0000-1000-8000-00805f9b34fb"

\* bytes.decode('utf-8') to the sequence of code points, on one- and
\* two-byte sequences; anything else is taken as invalid.  A text of
\* [ok |-> FALSE] is the UnicodeDecodeError.
RECURSIVE utf8_decode(_)
utf8_decode(data) ==
    IF data = <<>>
    THEN [ok |-> TRUE, text |-> <<>>]
    ELSE IF data[1] < 128
    THEN LET rest == utf8_decode(Tail(data))
         IN  [ok |-> rest.ok, text |-> <<data[1]>> \o rest.text]
    ELSE IF data[1] \in 194..223 /\ Len(data) >= 2 /\ data[2] \in 128..191
    THEN LET rest == utf8_decode(SliceFrom(data, 2))
         IN  [ok |-> rest.ok, text |-> <<(data[1] % 32) * 64 + (data[2] % 64)>> \o rest.text]
    ELSE [ok |-> FALSE, text |-> <<>>]

\* bytes.decode('utf-8', errors='ignore'): the bytes that do not decode
\* are left out
RECURSIVE utf8_decode_ignore(_)
utf8_decode_ignore(data) ==
    IF data = <<>>
    THEN <<>>
    ELSE IF data[1] < 128
    THEN <<data[1]>> \o utf8_decode_ignore(Tail(data))
    ELSE IF data[1] \in 194..223 /\ Len(data) >= 2 /\ data[2] \in 128..191
    THEN <<(data[1] % 32) * 64 + (data[2] % 64)>> \o utf8_decode_ignore(SliceFrom(data, 2))
    ELSE utf8_decode_ignore(Tail(data))

\* The 16-bit UUIDs of an AD structure of type 0x02 or 0x03, as text.
RECURSIVE uuids16(_)
uuids16(data) ==
    IF Len(data) < 2 THEN <<>> ELSE <<Hex4LE(data)>> \o uuids16(SliceFrom(data, 2))

\* The 128-bit UUIDs of an AD structure of type 0x06 or 0x07, as text.
RECURSIVE uuids128(_)
uuids128(data) ==
    IF Len(data) < 16
    THEN <<>>
    ELSE <<Uuid128(Slice(data, 0, 16))>> \o uuids128(SliceFrom(data, 16))

MutAdStructureNoUuidList(desc, ad_type, data) ==
    IF ad_type \in {8, 9}
    THEN IF utf8_decode(data).ok
         THEN [desc EXCEPT !.local_name = utf8_decode(data).text]
         ELSE desc
    ELSE desc

\* DBusAdvertisement.update_from_ad_data: the branch on ad_type
ad_structure(desc, ad_type, data) ==
    IF ad_type \in {2, 3}
    THEN [desc EXCEPT !.service_uuids = desc.service_uuids \o uuids16(data)]
    ELSE IF ad_type \in {6, 7}
    THEN [desc EXCEPT !.service_uuids = desc.service_uuids \o uuids128(data)]
    ELSE IF ad_type \in {8, 9}
    THEN IF utf8_decode(data).ok
         THEN [desc EXCEPT !.local_name = utf8_decode(data).text]
         ELSE desc
    ELSE IF ad_type = 255 /\ Len(data) >= 2
    THEN [desc EXCEPT !.manufacturer_data =
              Put(desc.manufacturer_data, unpack_H(Slice(data, 0, 2)), SliceFrom(data, 2))]
    ELSE IF ad_type = 22 /\ Len(data) >= 2
    THEN [desc EXCEPT !.service_data =
              Put(desc.service_data, Hex4LE(data), SliceFrom(data, 2))]
    ELSE desc

\* DBusAdvertisement.update_from_ad_data: the loop from offset i
RECURSIVE ad_loop(_, _, _)
ad_loop(desc, ad_data, i) ==
    IF i >= Len(ad_data) \/ i + 1 >= Len(ad_data)
    THEN desc
    ELSE LET length == At(ad_data, i)
         IN  IF length = 0 \/ i + 1 + length > Len(ad_data)
             THEN desc
             ELSE ad_loop(ad_structure(desc, At(ad_data, i + 1),
                                       Slice(ad_data, i + 2, i + 1 + length)),
                          ad_data, i + 1 + length)

\* DBusAdvertisement.update_from_ad_data
update_from_ad_data(ad_data) ==
    ad_loop([ service_uuids |-> <<>>, manufacturer_data |-> EmptyDict,
              service_data |-> EmptyDict, local_name |-> None ],
            ad_data, 0)

\* Advertisement._parse_ad_data of ble_bridge_dbus.py: the branch on ad_type
parse_ad_structure(desc, ad_type, data) ==
    IF ad_type = 9
    THEN [desc EXCEPT !.local_name = utf8_decode_ignore(data)]
    ELSE IF ad_type = 22 /\ Len(data) >= 2
    THEN [desc EXCEPT !.service_data =
              Put(desc.service_data, Hex4LE(data), SliceFrom(data, 2))]
    ELSE IF ad_type = 255 /\ Len(data) >= 2
    THEN [desc EXCEPT !.manufacturer_data =
              Put(desc.manufacturer_data, data[1] + 256 * data[2], SliceFrom(data, 2))]
    ELSE desc

\* Advertisement._parse_ad_data: the loop from offset i
RECURSIVE parse_ad_loop(_, _, _)
parse_ad_loop(desc, ad_data, i) ==
    IF i >= Len(ad_data) \/ i + 1 >= Len(ad_data)
    THEN desc
    ELSE LET length == At(ad_data, i)
         IN  IF length = 0 \/ i + length > Len(ad_data)
             THEN desc
             ELSE parse_ad_loop(parse_ad_structure(desc, At(ad_data, i + 1),
                                                   Slice(ad_data, i + 2, i + 1 + length)),
                                ad_data, i + 1 + length)

\* Advertisement.__init__ of ble_bridge_dbus.py: the defaults, then
\* _parse_ad_data
Advertisement(ad_data) ==
    parse_ad_loop([ service_uuids |-> <<MATTER_SERVICE_UUID>>, manufacturer_data |-> EmptyDict,
                    service_data |-> EmptyDict, local_name |-> MatterDeviceName ],
                  ad_data, 0)

\* ------------------------------------------------------------------------
\* Renode -> bridge (ble_bridge.py)
\* ------------------------------------------------------------------------

\* DBusBLEManager._unregister_advertisement: the call is made when the flag
\* is set, and the flag is cleared unless the call raises
unregister_advertisement ==
    IF ~ad_registered \/ advertisement = <<>>
    THEN /\ bus_calls' = <<>>
         /\ UNCHANGED <<ad_registered, open_registers>>
    ELSE /\ bus_calls' = <<"UnregisterAdvertisement">>
         /\ open_registers' = 0
         /\ \E ok \in BOOLEAN : ad_registered' = IF ok THEN FALSE ELSE ad_registered

\* DBusBLEManager.set_advertising_data up to the call of
\* _register_advertisement, which follows at pc = "register_advertisement"
set_advertising_data(ad_data) ==
    /\ advertisement' = <<update_from_ad_data(ad_data)>>
    /\ unregister_advertisement

\* "if ad_data != self.current_adv_data" of _handle_adv_ind, and the same
\* test on current_ad_data in BLEBridgeDBus._handle_adv_frame
MutAdvDataAlwaysChanged(ad_data) == TRUE

adv_data_changed(ad_data) == ad_data # current_adv_data

\* _handle_adv_ind
handle_adv_ind(channel, tx_add, payload) ==
    IF Len(payload) < 6
    THEN Return
    ELSE LET ad_data == SliceFrom(payload, 6)
         IN  /\ adv_addr' = Slice(payload, 0, 6)
             /\ UNCHANGED <<connections, access_addr_map>>
             /\ renode_tx' = <<>>
             /\ IF adv_data_changed(ad_data)
                THEN /\ current_adv_data' = ad_data
                     /\ adv_updates' = <<ad_data>>
                     /\ IF dbus_manager
                        THEN /\ UNCHANGED advertising_enabled
                             /\ hci_tx' = <<>>
                             /\ hci_write_failed' = FALSE
                             /\ pc' = "register_advertisement"
                             /\ cur' = None
                             /\ UNCHANGED running
                        ELSE LET cmds == hci_adv_commands(ad_data)
                             IN  \E n \in 0..Len(cmds) :
                                     /\ hci_tx' = SubSeq(cmds, 1, n)
                                     /\ hci_write_failed' = FALSE
                                     /\ IF n = Len(cmds)
                                        THEN advertising_enabled' = TRUE /\ ToSelect
                                        ELSE UNCHANGED advertising_enabled /\ Crash
                ELSE /\ UNCHANGED <<current_adv_data, advertising_enabled>>
                     /\ adv_updates' = <<>>
                     /\ hci_tx' = <<>>
                     /\ hci_write_failed' = FALSE
                     /\ ToSelect

\* _handle_scan_rsp
handle_scan_rsp(channel, tx_add, payload) ==
    IF Len(payload) < 6
    THEN Return
    ELSE /\ UNCHANGED bridgeVars
         /\ renode_tx' = <<>>
         /\ adv_updates' = <<>>
         /\ IF dry_run \/ ~hci_sock
            THEN hci_tx' = <<>> /\ hci_write_failed' = FALSE /\ ToSelect
            ELSE \E ok \in BOOLEAN :
                     IF ok
                     THEN /\ hci_tx' = <<hci_command(8, 9, adv_data_params(SliceFrom(payload, 6)))>>
                          /\ hci_write_failed' = FALSE
                          /\ ToSelect
                     ELSE hci_tx' = <<>> /\ hci_write_failed' = FALSE /\ Crash

\* _handle_adv_frame without the comparison of the length byte with the frame.
MutHandleAdvFrameNoLengthCheck(channel, frame) ==
    LET pdu_header == At(frame, 4)
        pdu_type == pdu_header % 16
        tx_add == (pdu_header \div 64) % 2
        pdu_length == At(frame, 5)
        pdu_payload == Slice(frame, 6, 6 + pdu_length)
    IN  IF pdu_type \in {ADV_IND, ADV_NONCONN_IND, ADV_SCAN_IND}
        THEN handle_adv_ind(channel, tx_add, pdu_payload)
        ELSE IF pdu_type = SCAN_RSP
        THEN handle_scan_rsp(channel, tx_add, pdu_payload)
        ELSE Return

\* _handle_adv_frame
handle_adv_frame(channel, frame) ==
    LET pdu_header == At(frame, 4)
        pdu_type == pdu_header % 16
        tx_add == (pdu_header \div 64) % 2
        pdu_length == At(frame, 5)
        pdu_payload == Slice(frame, 6, 6 + pdu_length)
    IN  IF pdu_length + 6 > Len(frame)
        THEN Return
        ELSE IF pdu_type \in {ADV_IND, ADV_NONCONN_IND, ADV_SCAN_IND}
        THEN handle_adv_ind(channel, tx_add, pdu_payload)
        ELSE IF pdu_type = SCAN_RSP
        THEN handle_scan_rsp(channel, tx_add, pdu_payload)
        ELSE Return

\* _handle_disconnect up to and including _send_ll_terminate_to_renode, for
\* the record under conn_handle in conns (the table with the handler's
\* updates so far); the clean-up follows at pc = "disconnect_cleanup"
handle_disconnect(conns, conn_handle) ==
    LET conn == conns[conn_handle]
    IN  /\ connections' = conns
        /\ UNCHANGED <<advertising_enabled, current_adv_data, adv_addr, access_addr_map>>
        /\ hci_tx' = <<>>
        /\ hci_write_failed' = FALSE
        /\ adv_updates' = <<>>
        /\ \E ok \in BOOLEAN :
               IF ok
               THEN /\ renode_tx' = <<send_to_renode(conn.current_channel,
                                                    ll_terminate_frame(conn))>>
                    /\ pc' = "disconnect_cleanup"
                    /\ cur' = conn_handle
                    /\ UNCHANGED running
               ELSE renode_tx' = <<>> /\ Crash

\* Termination on every control PDU that has an opcode.
MutHandleLlControlAnyOpcode(conns, conn_handle, payload) ==
    IF Len(payload) >= 1
    THEN handle_disconnect(conns, conn_handle)
    ELSE /\ connections' = conns
         /\ UNCHANGED <<advertising_enabled, current_adv_data, adv_addr, access_addr_map>>
         /\ NoOutput
         /\ ToSelect

\* _handle_ll_control
handle_ll_control(conns, conn_handle, payload) ==
    IF Len(payload) >= 1 /\ At(payload, 0) = LL_TERMINATE_IND
    THEN handle_disconnect(conns, conn_handle)
    ELSE /\ connections' = conns
         /\ UNCHANGED <<advertising_enabled, current_adv_data, adv_addr, access_addr_map>>
         /\ NoOutput
         /\ ToSelect

\* _forward_data_to_hci
forward_data_to_hci(conns, conn_handle, llid, payload) ==
    /\ connections' = conns
    /\ UNCHANGED <<advertising_enabled, current_adv_data, adv_addr, access_addr_map>>
    /\ renode_tx' = <<>>
    /\ adv_updates' = <<>>
    /\ ToSelect
    /\ IF dry_run \/ ~hci_sock
       THEN hci_tx' = <<>> /\ hci_write_failed' = FALSE
       ELSE \E ok \in BOOLEAN :
                /\ hci_tx' = IF ok THEN <<hci_acl_packet(conns[conn_handle], llid, payload)>>
                                   ELSE <<>>
                /\ hci_write_failed' = ~ok

\* Sequence numbers taken from data PDUs only, not from control PDUs.
MutHandleDataFrameAckOnData(access_addr, channel, frame) ==
    IF access_addr \notin DOMAIN access_addr_map
    THEN Return
    ELSE LET conn_handle == access_addr_map[access_addr]
         IN  IF conn_handle \notin DOMAIN connections \/ Len(frame) < 6
             THEN Return
             ELSE LET header == unpack_H(Slice(frame, 4, 6))
                      llid == header % 4
                      sn == (header \div 8) % 2
                      length == (header \div 256) % 256
                      payload == Slice(frame, 6, 6 + length)
                      conns == Put(connections, conn_handle,
                                   ack_received(connections[conn_handle], sn))
                  IN  IF llid = CONTROL
                      THEN handle_ll_control(connections, conn_handle, payload)
                      ELSE IF llid \in {DATA_START, DATA_CONT}
                      THEN forward_data_to_hci(conns, conn_handle, llid, payload)
                      ELSE /\ connections' = conns
                           /\ UNCHANGED <<advertising_enabled, current_adv_data,
                                          adv_addr, access_addr_map>>
                           /\ NoOutput
                           /\ ToSelect

\* _handle_data_frame
handle_data_frame(access_addr, channel, frame) ==
    IF access_addr \notin DOMAIN access_addr_map
    THEN Return
    ELSE LET conn_handle == access_addr_map[access_addr]
         IN  IF conn_handle \notin DOMAIN connections \/ Len(frame) < 6
             THEN Return
             ELSE LET header == unpack_H(Slice(frame, 4, 6))
                      llid == header % 4
                      sn == (header \div 8) % 2
                      length == (header \div 256) % 256
                      payload == Slice(frame, 6, 6 + length)
                      conns == Put(connections, conn_handle,
                                   ack_received(connections[conn_handle], sn))
                  IN  IF llid = CONTROL
                      THEN handle_ll_control(conns, conn_handle, payload)
                      ELSE IF llid \in {DATA_START, DATA_CONT}
                      THEN forward_data_to_hci(conns, conn_handle, llid, payload)
                      ELSE /\ connections' = conns
                           /\ UNCHANGED <<advertising_enabled, current_adv_data,
                                          adv_addr, access_addr_map>>
                           /\ NoOutput
                           /\ ToSelect

\* _handle_renode_frame, on the datagram recvfrom() returned
handle_renode_frame(data) ==
    IF Len(data) < 4
    THEN Return
    ELSE LET pkt_type == At(data, 0)
             channel == At(data, 1)
             length == unpack_H(Slice(data, 2, 4))
             ble_frame == Slice(data, 4, 4 + length)
         IN  IF pkt_type # PKT_TYPE_TX \/ Len(ble_frame) < 6
             THEN Return
             ELSE IF unpack_I(Slice(ble_frame, 0, 4)) = BLE_ADV_ACCESS_ADDR
             THEN handle_adv_frame(channel, ble_frame)
             ELSE handle_data_frame(unpack_I(Slice(ble_frame, 0, 4)), channel, ble_frame)

\* ------------------------------------------------------------------------
\* Host -> bridge (ble_bridge.py)
\* ------------------------------------------------------------------------

\* A record that takes the supervision timeout for the latency and the
\* latency for the timeout.
MutLeConnectionCompleteSwapsFields(status, conn_handle, peer_addr_type, peer_addr, interval, latency, timeout) ==
    IF status # 0
    THEN Return
    ELSE \E aa \in generate_access_address, crc \in CrcDraws, hop \in HopDraws(env) :
             LET conn == ConnectionState(conn_handle, aa, crc, peer_addr, peer_addr_type,
                                         adv_addr, interval, timeout, latency, hop)
                 t == create_connection(connections, access_addr_map, conn)
             IN  /\ connections' = t.connections
                 /\ access_addr_map' = t.access_addr_map
                 /\ UNCHANGED <<advertising_enabled, current_adv_data, adv_addr>>
                 /\ NoOutput
                 /\ pc' = "send_connect_ind"
                 /\ cur' = conn_handle
                 /\ UNCHANGED running

\* _handle_le_connection_complete / _handle_le_enhanced_connection_complete
\* after the length check, on the fields parsed: _create_connection with
\* the values drawn; _send_connect_ind_to_renode follows at
\* pc = "send_connect_ind"
le_connection_complete(status, conn_handle, peer_addr_type, peer_addr, interval, latency, timeout) ==
    IF status # 0
    THEN Return
    ELSE \E aa \in generate_access_address, crc \in CrcDraws, hop \in HopDraws(env) :
             LET conn == ConnectionState(conn_handle, aa, crc, peer_addr, peer_addr_type,
                                         adv_addr, interval, latency, timeout, hop)
                 t == create_connection(connections, access_addr_map, conn)
             IN  /\ connections' = t.connections
                 /\ access_addr_map' = t.access_addr_map
                 /\ UNCHANGED <<advertising_enabled, current_adv_data, adv_addr>>
                 /\ NoOutput
                 /\ pc' = "send_connect_ind"
                 /\ cur' = conn_handle
                 /\ UNCHANGED running

\* A Connection Complete taken as successful whatever its status.
MutHandleLeConnectionCompleteAnyStatus(params) ==
    IF Len(params) < 18
    THEN Return
    ELSE le_connection_complete(0, unpack_H(Slice(params, 1, 3)),
                                At(params, 4), Slice(params, 5, 11),
                                unpack_H(Slice(params, 11, 13)),
                                unpack_H(Slice(params, 13, 15)),
                                unpack_H(Slice(params, 15, 17)))

\* _handle_le_connection_complete
handle_le_connection_complete(params) ==
    IF Len(params) < 18
    THEN Return
    ELSE le_connection_complete(At(params, 0), unpack_H(Slice(params, 1, 3)),
                                At(params, 4), Slice(params, 5, 11),
                                unpack_H(Slice(params, 11, 13)),
                                unpack_H(Slice(params, 13, 15)),
                                unpack_H(Slice(params, 15, 17)))

\* An Enhanced Connection Complete read with the offsets of the plain one.
MutHandleLeEnhancedPlainOffsets(params) ==
    IF Len(params) < 30
    THEN Return
    ELSE le_connection_complete(At(params, 0), unpack_H(Slice(params, 1, 3)),
                                At(params, 4), Slice(params, 5, 11),
                                unpack_H(Slice(params, 11, 13)),
                                unpack_H(Slice(params, 13, 15)),
                                unpack_H(Slice(params, 15, 17)))

\* _handle_le_enhanced_connection_complete
handle_le_enhanced_connection_complete(params) ==
    IF Len(params) < 30
    THEN Return
    ELSE le_connection_complete(At(params, 0), unpack_H(Slice(params, 1, 3)),
                                At(params, 4), Slice(params, 5, 11),
                                unpack_H(Slice(params, 23, 25)),
                                unpack_H(Slice(params, 25, 27)),
                                unpack_H(Slice(params, 27, 29)))

\* _handle_le_meta_event
handle_le_meta_event(params) ==
    IF Len(params) < 1
    THEN Return
    ELSE IF At(params, 0) = 1
    THEN handle_le_connection_complete(SliceFrom(params, 1))
    ELSE IF At(params, 0) = 10
    THEN handle_le_enhanced_connection_complete(SliceFrom(params, 1))
    ELSE Return

\* _handle_disconnection_complete
handle_disconnection_complete(params) ==
    IF Len(params) < 4
    THEN Return
    ELSE LET conn_handle == unpack_H(Slice(params, 1, 3))
         IN  IF conn_handle \in DOMAIN connections
             THEN handle_disconnect(connections, conn_handle)
             ELSE Return

\* _handle_hci_event
handle_hci_event(data) ==
    IF Len(data) < 2
    THEN Return
    ELSE LET event_code == At(data, 0)
             param_len == At(data, 1)
             params == Slice(data, 2, 2 + param_len)
         IN  IF event_code = 62
             THEN handle_le_meta_event(params)
             ELSE IF event_code = 5
             THEN handle_disconnection_complete(params)
             ELSE Return

\* The frame sent on the channel the hop arrives at.
MutSendDataToRenodeChannelAfterHop(conn_handle, pb_flag, payload) ==
    LET conn == connections[conn_handle]
    IN  /\ conn.event_counter < MaxEventCounter
        /\ connections' = Put(connections, conn_handle, after_data_sent(conn))
        /\ UNCHANGED <<advertising_enabled, current_adv_data, adv_addr, access_addr_map>>
        /\ hci_tx' = <<>>
        /\ hci_write_failed' = FALSE
        /\ adv_updates' = <<>>
        /\ \E ok \in BOOLEAN :
               IF ok
               THEN /\ renode_tx' = <<send_to_renode(after_data_sent(conn).current_channel,
                                                    data_frame(conn, pb_flag, payload))>>
                    /\ ToSelect
               ELSE renode_tx' = <<>> /\ Crash

\* _send_data_to_renode
send_data_to_renode(conn_handle, pb_flag, payload) ==
    LET conn == connections[conn_handle]
    IN  /\ conn.event_counter < MaxEventCounter
        /\ connections' = Put(connections, conn_handle, after_data_sent(conn))
        /\ UNCHANGED <<advertising_enabled, current_adv_data, adv_addr, access_addr_map>>
        /\ hci_tx' = <<>>
        /\ hci_write_failed' = FALSE
        /\ adv_updates' = <<>>
        /\ \E ok \in BOOLEAN :
               IF ok
               THEN /\ renode_tx' = <<send_to_renode(conn.current_channel,
                                                    data_frame(conn, pb_flag, payload))>>
                    /\ ToSelect
               ELSE renode_tx' = <<>> /\ Crash

\* An ACL packet for a handle without a record sent on to the simulator.
MutHandleHciAclDataAnyHandle(data) ==
    IF Len(data) < 4
    THEN Return
    ELSE LET handle_flags == unpack_H(Slice(data, 0, 2))
             length == unpack_H(Slice(data, 2, 4))
             payload == Slice(data, 4, 4 + length)
             conn_handle == handle_flags % 4096
             pb_flag == (handle_flags \div 4096) % 4
         IN  IF conn_handle \notin DOMAIN connections
             THEN /\ UNCHANGED bridgeVars
                  /\ renode_tx' = <<send_to_renode(0, payload)>>
                  /\ hci_tx' = <<>>
                  /\ hci_write_failed' = FALSE
                  /\ adv_updates' = <<>>
                  /\ ToSelect
             ELSE send_data_to_renode(conn_handle, pb_flag, payload)

\* _handle_hci_acl_data
handle_hci_acl_data(data) ==
    IF Len(data) < 4
    THEN Return
    ELSE LET handle_flags == unpack_H(Slice(data, 0, 2))
             length == unpack_H(Slice(data, 2, 4))
             payload == Slice(data, 4, 4 + length)
             conn_handle == handle_flags % 4096
             pb_flag == (handle_flags \div 4096) % 4
         IN  IF conn_handle \notin DOMAIN connections
             THEN Return
             ELSE send_data_to_renode(conn_handle, pb_flag, payload)

\* _handle_hci_packet, on the packet recv() returned
handle_hci_packet(data) ==
    IF Len(data) < 1
    THEN Return
    ELSE IF At(data, 0) = 4
    THEN handle_hci_event(SliceFrom(data, 1))
    ELSE IF At(data, 0) = 2
    THEN handle_hci_acl_data(SliceFrom(data, 1))
    ELSE Return

\* ------------------------------------------------------------------------
\* Renode -> bridge (ble_bridge_dbus.py)
\* ------------------------------------------------------------------------

\* BLEBridgeDBus._handle_adv_frame, run by the receiver thread: what it
\* assigns joins aux_wrote
dbus_handle_adv_frame(channel, frame) ==
    LET pdu_type == At(frame, 4) % 16
        pdu_length == At(frame, 5)
        pdu_payload == Slice(frame, 6, 6 + pdu_length)
        ad_data == SliceFrom(pdu_payload, 6)
    IN  IF pdu_length + 6 > Len(frame)
           \/ pdu_type \notin {0, 2, 6}
           \/ Len(pdu_payload) < 6
        THEN UNCHANGED <<bridgeVars, glib_idle, aux_wrote>> /\ NoOutput
        ELSE /\ adv_addr' = Slice(pdu_payload, 0, 6)
             /\ UNCHANGED <<advertising_enabled, connections, access_addr_map>>
             /\ renode_tx' = <<>>
             /\ hci_tx' = <<>>
             /\ hci_write_failed' = FALSE
             /\ IF adv_data_changed(ad_data)
                THEN /\ current_adv_data' = ad_data
                     /\ aux_wrote' = aux_wrote \cup {"adv_addr", "current_ad_data"}
                     /\ adv_updates' = <<ad_data>>
                     /\ IF ~dry_run
                        THEN /\ Len(glib_idle) < MaxIdle
                             /\ glib_idle' = Append(glib_idle, ad_data)
                        ELSE UNCHANGED glib_idle
                ELSE /\ UNCHANGED <<current_adv_data, glib_idle>>
                     /\ aux_wrote' = aux_wrote \cup {"adv_addr"}
                     /\ adv_updates' = <<>>

\* BLEBridgeDBus._handle_renode_frame
dbus_handle_renode_frame(data) ==
    IF Len(data) < 4
    THEN UNCHANGED <<bridgeVars, glib_idle, aux_wrote>> /\ NoOutput
    ELSE LET pkt_type == At(data, 0)
             channel == At(data, 1)
             length == unpack_H(Slice(data, 2, 4))
             ble_frame == Slice(data, 4, 4 + length)
         IN  IF pkt_type # PKT_TYPE_TX
                \/ Len(ble_frame) < 6
                \/ unpack_I(Slice(ble_frame, 0, 4)) # BLE_ADV_ACCESS_ADDR
             THEN UNCHANGED <<bridgeVars, glib_idle, aux_wrote>> /\ NoOutput
             ELSE dbus_handle_adv_frame(channel, ble_frame)

\* ------------------------------------------------------------------------
\* Steps
\* ------------------------------------------------------------------------

\* What is remembered of the input a handler reads.
Read(d) ==
    /\ event' = d.what
    /\ prev_ad' = IF event.kind = "adv" THEN event.key ELSE prev_ad
    /\ rx' = d.data

\* SN bit and first payload byte of the LL data frame in a datagram sent to
\* Renode, and the channel byte of the datagram.
SentLl(packet) ==
    [sn |-> (packet[9] \div 8) % 2, tag |-> packet[11], channel |-> packet[2]]

\* Handle and first payload byte of an HCI ACL packet written to the host.
WrittenAcl(packet) == [handle |-> (packet[2] + 256 * packet[3]) % 4096, tag |-> packet[6]]

\* The record of what was forwarded, after the handler of input d has run:
\* nothing yet on a record just filed, one more LL data frame sent for the
\* ACL packet read, one more ACL packet written for the data PDU read.
Track(d) ==
    hist' =
        [ h \in DOMAIN connections' |->
            IF pc' = "send_connect_ind" /\ cur' = h
            THEN [ll_sent |-> <<>>, acl_written |-> <<>>, sim_sn |-> -1]
            ELSE [ sim_sn |->
                     IF /\ d.what.kind \in {"data", "data_reserved", "ll_control", "ll_terminate"}
                        /\ d.what.key = connections'[h].access_addr
                     THEN (d.data[9] \div 8) % 2
                     ELSE hist[h].sim_sn,
                   ll_sent |->
                     IF d.what.kind = "acl" /\ d.what.key = h /\ renode_tx' # <<>>
                     THEN Append(hist[h].ll_sent, SentLl(renode_tx'[1]))
                     ELSE hist[h].ll_sent,
                   acl_written |->
                     IF d.what.kind = "data" /\ hci_tx' # <<>>
                        /\ WrittenAcl(hci_tx'[1]).handle = h
                     THEN Append(hist[h].acl_written, WrittenAcl(hci_tx'[1]).tag)
                     ELSE hist[h].acl_written ] ]

\* The records whose termination has completed, as (handle, access address):
\* a record leaves the set when a new record is filed under its handle or
\* with its access address.
Filed ==
    terminated' =
        IF pc' = "send_connect_ind"
        THEN { t \in terminated : /\ t.conn_handle # cur'
                                  /\ t.access_addr # connections'[cur'].access_addr }
        ELSE terminated

\* run(): select() reports the Renode socket readable.  _handle_adv_ind
\* calls set_advertising_data exactly where it goes on to
\* pc = "register_advertisement".
RenodeReadable ==
    /\ script = "ble_bridge" /\ running /\ pc = "select"
    /\ pending_replies < MaxPendingReplies
    /\ \E d \in RenodeDatagrams(env) : Read(d) /\ handle_renode_frame(d.data) /\ Track(d) /\ Filed
    /\ IF pc' = "register_advertisement"
       THEN set_advertising_data(current_adv_data')
       ELSE bus_calls' = <<>> /\ UNCHANGED <<advertisement, ad_registered, open_registers>>
    /\ UNCHANGED <<modeVars, glib_idle, pending_replies, aux_wrote>>

\* run(): select() reports the HCI socket readable
HciReadable ==
    /\ script = "ble_bridge" /\ running /\ pc = "select"
    /\ hci_sock
    /\ \E d \in HciPackets(env) : Read(d) /\ handle_hci_packet(d.data) /\ Track(d) /\ Filed
    /\ bus_calls' = <<>>
    /\ UNCHANGED <<modeVars, glib_idle, advertisement, ad_registered, pending_replies,
                   open_registers, aux_wrote>>

\* DBusBLEManager._register_advertisement, the second half of
\* set_advertising_data, and the return to _handle_adv_ind: the call is made
\* unless the flag is set, and a reply is outstanding unless the call raises
RegisterAdvertisement ==
    /\ pc = "register_advertisement"
    /\ IF ad_registered \/ advertisement = <<>>
       THEN UNCHANGED <<bus_calls, pending_replies, open_registers>>
       ELSE /\ bus_calls' = Append(bus_calls, "RegisterAdvertisement")
            /\ \E ok \in BOOLEAN :
                   IF ok
                   THEN /\ pending_replies' = pending_replies + 1
                        /\ open_registers' = Min(open_registers + 1, 2)
                   ELSE UNCHANGED <<pending_replies, open_registers>>
    /\ advertising_enabled' = TRUE
    /\ ToSelect
    /\ UNCHANGED <<modeVars, current_adv_data, adv_addr, connections, access_addr_map,
                   glib_idle, renode_tx, hci_tx, adv_updates, event, prev_ad, hist,
                   terminated, rx, hci_write_failed, advertisement, ad_registered, aux_wrote>>

\* The thread that dispatches a reply of the bus in ble_bridge.py: the
\* background thread that runs glib_loop, at any time, or the main thread
\* in context.iteration() between two rounds of select().
Dispatchers == IF pc = "select" THEN {"main", "glib"} ELSE {"glib"}

\* DBusBLEManager._register_ad_cb, dispatched by thread t
RegisterAdCb ==
    /\ script = "ble_bridge" /\ running
    /\ pending_replies > 0
    /\ \E t \in Dispatchers :
           aux_wrote' = IF t = "glib" THEN aux_wrote \cup {"_ad_registered"} ELSE aux_wrote
    /\ ad_registered' = TRUE
    /\ pending_replies' = pending_replies - 1
    /\ UNCHANGED <<modeVars, bridgeVars, glib_idle, running, pc, cur, renode_tx, hci_tx,
                   adv_updates, event, prev_ad, hist, terminated, rx, hci_write_failed,
                   advertisement, bus_calls, open_registers>>

\* DBusBLEManager._register_ad_error_cb, dispatched by thread t
RegisterAdErrorCb ==
    /\ script = "ble_bridge" /\ running
    /\ pending_replies > 0
    /\ \E t \in Dispatchers :
           aux_wrote' = IF t = "glib" THEN aux_wrote \cup {"_ad_registered"} ELSE aux_wrote
    /\ ad_registered' = FALSE
    /\ pending_replies' = pending_replies - 1
    /\ UNCHANGED <<modeVars, bridgeVars, glib_idle, running, pc, cur, renode_tx, hci_tx,
                   adv_updates, event, prev_ad, hist, terminated, rx, hci_write_failed,
                   advertisement, bus_calls, open_registers>>

\* _send_connect_ind_to_renode, the second half of a Connection Complete
SendConnectInd ==
    /\ pc = "send_connect_ind"
    /\ SendLast(send_to_renode(37, connect_ind_frame(connections[cur])))
    /\ UNCHANGED <<modeVars, bridgeVars, glib_idle, hci_tx, adv_updates, event, prev_ad,
                   rx, hci_write_failed,
                   hist, terminated, dbusVars>>

\* the clean-up of _handle_disconnect
DisconnectCleanup ==
    /\ pc = "disconnect_cleanup"
    /\ LET t == disconnect_cleanup(connections, access_addr_map, connections[cur])
       IN  /\ connections' = t.connections
           /\ access_addr_map' = t.access_addr_map
    /\ hist' = [h \in DOMAIN connections' |-> hist[h]]
    /\ terminated' = terminated \cup { [ conn_handle |-> connections[cur].conn_handle,
                                          access_addr |-> connections[cur].access_addr ] }
    /\ ToSelect
    /\ UNCHANGED <<modeVars, advertising_enabled, current_adv_data, adv_addr, glib_idle,
                   renode_tx, hci_tx, adv_updates, event, prev_ad, rx, hci_write_failed,
                   dbusVars>>

\* _udp_loop of ble_bridge_dbus.py: the receiver thread reads one datagram
\* and runs _handle_renode_frame on it
DBusUdpLoop ==
    /\ script = "ble_bridge_dbus" /\ running
    /\ \E d \in RenodeDatagrams(env) : Read(d) /\ dbus_handle_renode_frame(d.data)
    /\ bus_calls' = <<>>
    /\ UNCHANGED <<modeVars, running, pc, cur, hist, terminated, advertisement,
                   ad_registered, pending_replies, open_registers>>

\* BLEBridgeDBus._update_advertisement past the dry-run return: the old
\* advertisement, if any, is unregistered (a DBusException is caught), the
\* new one is built from ad_data and registered; an exception on the way
\* ends the update where it stands
update_advertisement(ad_data) ==
    \E done \in 0..2 :
        LET unregister == IF advertisement # <<>> THEN <<"UnregisterAdvertisement">> ELSE <<>>
        IN  /\ advertisement' = IF done >= 1 THEN <<Advertisement(ad_data)>> ELSE advertisement
            /\ bus_calls' = unregister \o (IF done = 2 THEN <<"RegisterAdvertisement">> ELSE <<>>)
            /\ open_registers' = Min((IF advertisement # <<>> THEN 0 ELSE open_registers)
                                      + (IF done = 2 THEN 1 ELSE 0), 2)

\* the GLib main loop of ble_bridge_dbus.py runs one posted
\* _update_advertisement callback
DBusIdle ==
    /\ script = "ble_bridge_dbus" /\ running
    /\ glib_idle # <<>>
    /\ glib_idle' = Tail(glib_idle)
    /\ update_advertisement(Head(glib_idle))
    /\ UNCHANGED <<modeVars, bridgeVars, running, pc, cur, renode_tx, hci_tx,
                   adv_updates, event, prev_ad, hist, terminated, rx, hci_write_failed,
                   ad_registered, pending_replies, aux_wrote>>

\* The termination signal: KeyboardInterrupt is raised in the main thread,
\* wherever it stands.  BLEBridge.run calls dbus_manager.stop(), which is
\* _unregister_advertisement, when it holds a manager, and returns;
\* BLEBridgeDBus.run returns.
Shutdown ==
    /\ running /\ env = "adv"
    /\ Read([data |-> <<>>, what |-> [kind |-> "shutdown", key |-> None]])
    /\ NoOutput
    /\ IF script = "ble_bridge" /\ dbus_manager
       THEN unregister_advertisement
       ELSE bus_calls' = <<>> /\ UNCHANGED <<ad_registered, open_registers>>
    /\ pc' = "stopped" /\ cur' = None /\ running' = FALSE
    /\ UNCHANGED <<modeVars, bridgeVars, glib_idle, hist, terminated, advertisement,
                   pending_replies, aux_wrote>>

Next ==
    \/ RenodeReadable
    \/ HciReadable
    \/ SendConnectInd
    \/ DisconnectCleanup
    \/ DBusUdpLoop
    \/ DBusIdle
    \/ RegisterAdvertisement
    \/ RegisterAdCb
    \/ RegisterAdErrorCb
    \/ Shutdown

Spec == Init /\ [][Next]_vars

\* ------------------------------------------------------------------------
\* ConnectionState.next_channel on its own: one record, built by the
\* dataclass from a channel map and a hop increment, hopped repeatedly.
\* ------------------------------------------------------------------------

\* Hops taken on the record.
MaxHops == 6

\* Channel maps the record is built from: all 37 channels, channels 0..7,
\* the odd channels, channel 0 alone, channels 3, 20 and 36, no channel
\* (the list falls back to all 37), and only bits past channel 36 (the same).
ChannelMaps ==
    { DefaultChannelMap, <<255, 0, 0, 0, 0>>, <<170, 170, 170, 170, 10>>,
      <<1, 0, 0, 0, 0>>, <<8, 0, 16, 0, 16>>, <<0, 0, 0, 0, 0>>, <<0, 0, 0, 0, 224>> }

\* The hop increments of random.randint(5, 16).
HopIncrements == 5..16

\* ConnectionState(..., channel_map=channel_map, hop_increment=hop_increment):
\* __post_init__ builds the channel list from the map given.
ConnectionStateWithMap(channel_map, hop_increment) ==
    [ ConnectionState(64, <<20581, 4660>>, 5592405, PeerAddr, 0, AdvAddr, 24, 0, 200, hop_increment)
        EXCEPT !.channel_map = channel_map,
               !.unmapped_channels = build_channel_list(channel_map) ]

InitNextChannel ==
    /\ script = "ble_bridge"
    /\ dry_run = FALSE /\ hci_sock = TRUE /\ dbus_manager = FALSE
    /\ running = TRUE
    /\ pc = "next_channel"
    /\ advertising_enabled = FALSE
    /\ current_adv_data = None
    /\ adv_addr = AdvAddr
    /\ \E channel_map \in ChannelMaps, hop_increment \in HopIncrements :
         connections = Put(EmptyDict, 64, ConnectionStateWithMap(channel_map, hop_increment))
    /\ access_addr_map = Put(EmptyDict, <<20581, 4660>>, 64)
    /\ glib_idle = <<>>
    /\ cur = 64
    /\ renode_tx = <<>>
    /\ hci_tx = <<>>
    /\ adv_updates = <<>>
    /\ env = "data"
    /\ event = [kind |-> "none", key |-> None]
    /\ prev_ad = None
    /\ rx = <<>>
    /\ hci_write_failed = FALSE
    /\ hist = EmptyDict
    /\ terminated = {}
    /\ advertisement = <<>>
    /\ ad_registered = FALSE
    /\ pending_replies = 0
    /\ bus_calls = <<>>
    /\ open_registers = 0
    /\ aux_wrote = {}

\* conn.next_channel() on the record; event notes the candidate channel
\* (current_channel + hop_increment) % 37 of the call.
NextChannel ==
    /\ pc = "next_channel"
    /\ connections[cur].event_counter < MaxHops
    /\ LET conn == connections[cur]
       IN  /\ connections' = [connections EXCEPT ![cur] = next_channel(conn)]
           /\ event' = [kind |-> "next_channel",
                        key |-> (conn.current_channel + conn.hop_increment) % 37]
    /\ UNCHANGED <<script, env, dry_run, hci_sock, dbus_manager, advertising_enabled,
                   current_adv_data, adv_addr, access_addr_map, glib_idle, running,
                   pc, cur, renode_tx, hci_tx, adv_updates, prev_ad, hist, terminated,
                   rx, hci_write_failed, advertisement, ad_registered, pending_replies,
                   bus_calls, open_registers, aux_wrote>>

NextNextChannel == NextChannel

SpecNextChannel == InitNextChannel /\ [][NextNextChannel]_vars

\* ------------------------------------------------------------------------
\* Properties
\* ------------------------------------------------------------------------

\* C1: the two indexes agree: access_addr_map maps an access address a to a
\* handle h exactly when connections holds a record under h and that
\* record's access address is a.
C1_IndexesAgree ==
    /\ \A a \in DOMAIN access_addr_map :
           /\ access_addr_map[a] \in DOMAIN connections
           /\ connections[access_addr_map[a]].access_addr = a
    /\ \A h \in DOMAIN connections :
           /\ connections[h].access_addr \in DOMAIN access_addr_map
           /\ access_addr_map[connections[h].access_addr] = h

\* C2: when a Connection Complete arrives for a handle that already has a
\* record, the old record's access address no longer resolves once the new
\* record (with another access address) is filed.
C2_OldRecordDestroyed ==
    [][ ( /\ pc = "select"
          /\ pc' = "send_connect_ind"
          /\ cur' \in DOMAIN connections
          /\ connections[cur'].access_addr # connections'[cur'].access_addr )
        => connections[cur'].access_addr \notin DOMAIN access_addr_map' ]_vars

\* C3: every record is filed under its own handle, and no two records carry
\* the same access address.
C3_UniqueIdentity ==
    /\ \A h \in DOMAIN connections : connections[h].conn_handle = h
    /\ \A h1, h2 \in DOMAIN connections :
           h1 # h2 => connections[h1].access_addr # connections[h2].access_addr

C5_TerminationIdempotent ==
    [][ ( /\ pc = "select"
          /\ \/ /\ event'.kind = "disconnection_complete"
                /\ \E t \in terminated : t.conn_handle = event'.key
             \/ /\ event'.kind = "ll_terminate"
                /\ \E t \in terminated : t.access_addr = event'.key )
        => /\ renode_tx' = <<>>
           /\ connections' = connections
           /\ access_addr_map' = access_addr_map ]_vars

C5_Witness ==
    /\ pc = "select"
    /\ renode_tx = <<>>
    /\ connections # EmptyDict
    /\ \/ /\ event.kind = "disconnection_complete"
          /\ \E t \in terminated : t.conn_handle = event.key
       \/ /\ event.kind = "ll_terminate"
          /\ \E t \in terminated : t.access_addr = event.key

\* C6: once a record has been terminated, looking up its handle and looking
\* up its access address both find nothing.
C6_TerminatedGone ==
    \A t \in terminated :
        /\ lookup_by_handle(connections, t.conn_handle) = {}
        /\ lookup_by_aa(connections, access_addr_map, t.access_addr) = {}
        /\ t.access_addr \notin DOMAIN access_addr_map

C6_Witness ==
    /\ terminated # {}
    /\ connections # EmptyDict
    /\ event.kind \in {"disconnection_complete", "ll_terminate"}
    /\ renode_tx # <<>>

\* C7: when the CONNECT_IND for a successful Connection Complete is sent,
\* the new record is in connections under its handle and in access_addr_map
\* under the access address the CONNECT_IND carries.
C7_FiledBeforeConnectInd ==
    /\ pc = "send_connect_ind"
           => /\ cur \in DOMAIN connections
              /\ lookup_by_aa(connections, access_addr_map, connections[cur].access_addr)
                     = {connections[cur]}
    /\ (pc = "select" /\ event.kind = "conn_complete" /\ renode_tx # <<>>)
           => LET sent_aa == unpack_I(Slice(renode_tx[1], 22, 26))
              IN  /\ event.key \in DOMAIN connections
                  /\ connections[event.key].access_addr = sent_aa
                  /\ sent_aa \in DOMAIN access_addr_map
                  /\ access_addr_map[sent_aa] = event.key

C7_Witness ==
    /\ pc = "select"
    /\ event.kind = "conn_complete"
    /\ renode_tx # <<>>
    /\ Cardinality(DOMAIN connections) = 2

\* C8: in each direction the PDUs of a connection are forwarded in the order
\* they arrived: the k-th frame sent to the simulator carries the k-th ACL
\* packet read, the k-th ACL packet written carries the k-th data PDU.
C8_ArrivalOrder ==
    \A h \in DOMAIN hist :
        /\ \A k \in 1..Len(hist[h].ll_sent) : hist[h].ll_sent[k].tag = k
        /\ \A k \in 1..Len(hist[h].acl_written) : hist[h].acl_written[k] = k

C8_Witness ==
    \E h \in DOMAIN hist :
        /\ Len(hist[h].ll_sent) >= 2
        /\ Len(hist[h].acl_written) >= 2

\* C9: handling an advertising PDU pushes an advertising-data update exactly
\* when its AD bytes differ from those of the advertising PDU accepted
\* before it; nothing else pushes one.
C9_PushOnChange ==
    running =>
        IF event.kind = "adv" /\ event.key # prev_ad
        THEN adv_updates = <<event.key>>
        ELSE adv_updates = <<>>

C9_Witness ==
    /\ running
    /\ event.kind = "adv"
    /\ event.key = prev_ad
    /\ adv_updates = <<>>
    /\ current_adv_data = event.key

\* C10: the access address of every record differs from the advertising
\* access address, from 0x00000000 and from 0xFFFFFFFF, and its six most
\* significant bits XORed with themselves shifted right by one have at
\* least two bits set.
C10_ValidAccessAddr ==
    \A h \in DOMAIN connections :
        LET aa == connections[h].access_addr
            TopBit(i) == (aa[1] \div (2 ^ (10 + i))) % 2
        IN  /\ aa # <<36489, 48854>>
            /\ aa # <<0, 0>>
            /\ aa # <<65535, 65535>>
            /\ Cardinality({ i \in 0..5 :
                   TopBit(i) # (IF i = 5 THEN 0 ELSE TopBit(i + 1)) }) >= 2

C10_Witness ==
    \E h1, h2 \in DOMAIN connections :
        connections[h1].access_addr # connections[h2].access_addr

\* C11: in every record hop_increment is in 5..16, the list of used
\* channels is not empty, and tx_sn, tx_nesn and rx_sn are 0 or 1.
C11_RecordRanges ==
    \A h \in DOMAIN connections :
        /\ connections[h].hop_increment \in 5..16
        /\ Len(connections[h].unmapped_channels) > 0
        /\ connections[h].tx_sn \in {0, 1}
        /\ connections[h].tx_nesn \in {0, 1}
        /\ connections[h].rx_sn \in {0, 1}

C11_Witness ==
    \E h \in DOMAIN connections :
        /\ connections[h].hop_increment = 16
        /\ connections[h].tx_sn = 1
        /\ connections[h].rx_sn = 1
        /\ connections[h].tx_nesn = 0

\* C12 as stated: on a record created by a Connection Complete the first
\* ACL packet leaves on channel 0 with SN 0, after which current_channel is 5
\* and tx_sn is 1; the second leaves on channel 5 with SN 1, after which
\* current_channel is 10.
C12_ScenarioS3 ==
    \A h \in DOMAIN hist :
        LET sent == hist[h].ll_sent
        IN  /\ Len(sent) >= 1 => sent[1].channel = 0 /\ sent[1].sn = 0
            /\ (running /\ Len(sent) = 1)
                   => connections[h].current_channel = 5 /\ connections[h].tx_sn = 1
            /\ Len(sent) >= 2 => sent[2].channel = 5 /\ sent[2].sn = 1
            /\ (running /\ Len(sent) = 2) => connections[h].current_channel = 10

\* C12 amended: the first ACL packet leaves on channel 0 with SN 0, after
\* which current_channel is hop_increment mod 37 and tx_sn is 1; the second
\* leaves on that channel with SN 1, after which current_channel is
\* 2 * hop_increment mod 37 (5 and 10 when the hop increment drawn is 5).
C12_ScenarioS3_AnyHop ==
    \A h \in DOMAIN hist :
        LET sent == hist[h].ll_sent
            hop == connections[h].hop_increment
        IN  /\ Len(sent) >= 1 => sent[1].channel = 0 /\ sent[1].sn = 0
            /\ (running /\ Len(sent) = 1)
                   => connections[h].current_channel = hop % 37 /\ connections[h].tx_sn = 1
            /\ Len(sent) >= 2 => sent[2].channel = hop % 37 /\ sent[2].sn = 1
            /\ (running /\ Len(sent) = 2)
                   => connections[h].current_channel = (2 * hop) % 37
            /\ hop = 5 => \A k \in 1..Len(sent) : k <= 2 => sent[k].channel = 5 * (k - 1)

C12_Witness ==
    \E h \in DOMAIN hist :
        /\ running
        /\ Len(hist[h].ll_sent) = 2
        /\ connections[h].hop_increment = 16
        /\ connections[h].current_channel = 32

\* C13: after a data PDU with LLID 2 (start) or 1 (continuation) on an access
\* address that resolves to a record, exactly one packet has been written to
\* the HCI socket, unless the write raised: byte 0x02, then the 12-bit handle
\* with the packet-boundary flag (2 for start, 1 for continuation) in bits
\* 12..13 as 16 bits little-endian, the payload length as 16 bits
\* little-endian, and the payload.  A PDU with LLID 0 writes nothing.
C13_AclFromDataPdu ==
    ( /\ pc = "select"
      /\ event.kind \in {"data", "data_reserved"}
      /\ lookup_by_aa(connections, access_addr_map, event.key) # {} )
    => LET llid == rx[9] % 4
           length == rx[10]
           payload == [k \in 1..length |-> rx[10 + k]]
           handle == access_addr_map[event.key]
           pb_flag == IF llid = 2 THEN 2 ELSE 1
           handle_flags == (handle % 4096) + 4096 * pb_flag
           expected == << 2, handle_flags % 256, handle_flags \div 256,
                          length % 256, length \div 256 >> \o payload
       IN  IF llid \in {1, 2} /\ ~hci_write_failed
           THEN hci_tx = <<expected>>
           ELSE hci_tx = <<>>

C13_Witness ==
    /\ pc = "select"
    /\ event.kind = "data"
    /\ 64 \in DOMAIN connections
    /\ hci_tx = << <<2, 64, 32, 3, 0, 1, 2, 3>> >>

\* C14: a Connection Complete with status 0 makes the bridge send exactly one
\* datagram to the simulator, unless sendto raises: channel byte 37, the
\* advertising access address, PDU type 5 in bits 3..0 of the header, a
\* payload of 34 bytes that is the peer address of the event, the
\* advertiser address and LLData, where LLData carries the record's access
\* address, its crc_init, WinSize, WinOffset, the interval, latency and
\* timeout of the event, the channel map FF FF FF FF 1F and the record's
\* hop increment in bits 4..0 with SCA 0.  A Connection Complete with
\* another status sends nothing.
C14_ConnectIndFrame ==
    /\ (pc = "select" /\ event.kind = "conn_failed") => renode_tx = <<>>
    /\ (pc = "select" /\ running /\ event.kind = "conn_complete")
       => LET c == connections[event.key]
              at == IF rx[4] = 10 THEN 28 ELSE 16
              init_addr == [k \in 1..6 |-> rx[9 + k]]
              timing == [k \in 1..6 |-> rx[at + k - 1]]
              aa == c.access_addr
              ll_data == << aa[2] % 256, aa[2] \div 256, aa[1] % 256, aa[1] \div 256,
                            c.crc_init % 256, (c.crc_init \div 256) % 256,
                            (c.crc_init \div 65536) % 256,
                            1, 0, 0 >>
                         \o timing
                         \o << 255, 255, 255, 255, 31, c.hop_increment >>
          IN  /\ Len(renode_tx) = 1
              /\ renode_tx[1][9] % 16 = 5
              /\ c.hop_increment < 32
              /\ Len(ll_data) = 22
              /\ timing = <<24, 0, 0, 0, 200, 0>>
              /\ renode_tx[1] = << 2, 37, 43, 0, 214, 190, 137, 142, renode_tx[1][9], 34 >>
                                \o init_addr \o adv_addr \o ll_data \o <<0, 0, 0>>

C14_Witness ==
    /\ pc = "select"
    /\ running
    /\ event.kind = "conn_complete"
    /\ adv_addr = AdvAddr
    /\ Len(renode_tx) = 1
    /\ Len(renode_tx[1]) = 47

\* C16: a data PDU of the simulator on an access address that is not in
\* access_addr_map, and an ACL packet of the host for a handle that is not
\* in connections, are dropped: nothing is sent to the simulator, nothing is
\* written to the host, and no record and no index entry changes.
C16_UnknownPeerDropped ==
    [][ ( /\ pc = "select"
          /\ \/ /\ event'.kind \in {"data", "data_reserved", "ll_control", "ll_terminate"}
                /\ event'.key \notin DOMAIN access_addr_map
             \/ /\ event'.kind = "acl"
                /\ event'.key \notin DOMAIN connections )
        => /\ renode_tx' = <<>>
           /\ hci_tx' = <<>>
           /\ adv_updates' = <<>>
           /\ connections' = connections
           /\ access_addr_map' = access_addr_map
           /\ DOMAIN hist' = DOMAIN hist
           /\ \A h \in DOMAIN hist : /\ hist'[h].ll_sent = hist[h].ll_sent
                                    /\ hist'[h].acl_written = hist[h].acl_written
           /\ running' ]_vars

C16_Witness ==
    /\ pc = "select"
    /\ running
    /\ event.kind = "acl"
    /\ event.key = 65
    /\ 65 \notin DOMAIN connections
    /\ 64 \in DOMAIN connections
    /\ renode_tx = <<>>

\* C17: a datagram of the simulator shorter than four bytes, or shorter than
\* four bytes plus the value of its length field, is dropped: no state of
\* the bridge changes, nothing is pushed or sent, and the loop goes on.
C17_MalformedDropped ==
    [][ ( /\ pc = "select"
          /\ event'.kind \in {"adv", "scan_rsp", "adv_other", "adv_short", "adv_overrun",
                              "data", "data_reserved", "ll_control", "ll_terminate",
                              "malformed"}
          /\ \/ Len(rx') < 4
             \/ Len(rx') < 4 + rx'[3] + 256 * rx'[4] )
        => /\ UNCHANGED bridgeVars
           /\ renode_tx' = <<>>
           /\ hci_tx' = <<>>
           /\ adv_updates' = <<>>
           /\ running' ]_vars

C18_UnregisterBetweenRegisters == dbus_manager => open_registers <= 1

\* C19: what the threads share (connection table, advertising state,
\* advertisement object, registration flag) is assigned by the main
\* event-loop thread only; the auxiliary thread assigns none of it.
C19_OnlyMainThreadWrites == aux_wrote = {}

\* C20: when the bridge has stopped on the termination signal, and
\* advertising was enabled, the host stack was told to take the
\* advertisement down: UnregisterAdvertisement with a manager, LE Set
\* Advertise Enable (off) on the raw HCI socket.
C20_ShutdownDisablesAdvertising ==
    pc = "stopped"
    => /\ (script = "ble_bridge" /\ dbus_manager /\ advertising_enabled)
          => InSeq("UnregisterAdvertisement", bus_calls)
       /\ (script = "ble_bridge" /\ hci_sock /\ advertising_enabled)
          => InSeq(hci_command(8, 10, <<0>>), hci_tx)
       /\ (script = "ble_bridge_dbus" /\ advertisement # <<>>)
          => InSeq("UnregisterAdvertisement", bus_calls)

\* C21: a failing socket send or receive (UDP send to the simulator, HCI
\* send, HCI or UDP receive) does not stop the bridge: the event loop is
\* never left on an exception.
C21_SocketFailureSurvived == pc # "crashed"

\* C22: a failure to bind the UDP socket or to get a host transport ends
\* with the bridge constructed in dry-run mode, not with a failure; and
\* dry_run is true whenever neither a manager nor an HCI socket is held.
C22_InitFallsBackToDryRun ==
    /\ pc # "init_failed"
    /\ ~dry_run => (dbus_manager \/ hci_sock)

\* C23: the termination of a record sends exactly one LL control PDU
\* (LLID 3, payload 02 13) with the record's access address on the record's
\* current_channel, and sends it while the record is still in the table:
\* the removal from connections and access_addr_map is the step after.
C23_TerminateBeforeRemoval ==
    [][ (pc = "disconnect_cleanup" /\ pc' = "select")
        => /\ cur \in DOMAIN connections
           /\ LET conn == connections[cur]
                  aa == conn.access_addr
              IN  /\ Len(renode_tx) = 1
                  /\ SubSeq(renode_tx[1], 1, 4) = <<PKT_TYPE_RX, conn.current_channel, 11, 0>>
                  /\ SubSeq(renode_tx[1], 5, 8)
                         = <<aa[2] % 256, aa[2] \div 256, aa[1] % 256, aa[1] \div 256>>
                  /\ renode_tx[1][9] % 4 = 3
                  /\ SubSeq(renode_tx[1], 10, 15) = <<2, 2, 19, 0, 0, 0>>
                  /\ Len(renode_tx[1]) = 15
                  /\ aa \notin DOMAIN access_addr_map'
           /\ renode_tx' = renode_tx
           /\ cur \notin DOMAIN connections' ]_vars

C23_Witness ==
    /\ pc = "disconnect_cleanup"
    /\ cur \in DOMAIN connections
    /\ Len(renode_tx) = 1
    /\ SubSeq(renode_tx[1], 9, 12) = <<3, 2, 2, 19>>
    /\ connections[cur].access_addr \in DOMAIN access_addr_map

\* C24: the LL data frame for a host ACL packet leaves on the channel that
\* was the record's current_channel before the packet was read; the record
\* hops once, to (current_channel + hop_increment) mod 37 with one more
\* event counted, and that channel is the one the next frame leaves on.
C24_ChannelBeforeHop ==
    [][ (pc = "select" /\ event'.kind = "acl" /\ renode_tx' # <<>>)
        => LET h == event'.key
           IN  /\ h \in DOMAIN connections /\ h \in DOMAIN connections'
               /\ Len(renode_tx') = 1
               /\ renode_tx'[1][2] = connections[h].current_channel
               /\ connections'[h].current_channel
                      = (connections[h].current_channel + connections[h].hop_increment) % 37
               /\ connections'[h].event_counter = connections[h].event_counter + 1 ]_vars

C24_Witness ==
    /\ pc = "select" /\ running
    /\ event.kind = "acl"
    /\ Len(renode_tx) = 1
    /\ renode_tx[1][2] = 16
    /\ event.key \in DOMAIN connections
    /\ connections[event.key].current_channel = 32

\* C25: a data PDU of the simulator on an access address that resolves to
\* a record, whatever its LLID (0, 1, 2 or 3), leaves that record with rx_sn
\* equal to the SN bit of the PDU and tx_nesn equal to (SN + 1) mod 2.
C25_AckEveryLlid ==
    [][ ( /\ pc = "select"
          /\ event'.kind \in {"data", "data_reserved", "ll_control", "ll_terminate"}
          /\ lookup_by_aa(connections, access_addr_map, event'.key) # {} )
        => LET h == access_addr_map[event'.key]
               sn == (rx'[9] \div 8) % 2
           IN  /\ h \in DOMAIN connections'
               /\ connections'[h].rx_sn = sn
               /\ connections'[h].tx_nesn = (sn + 1) % 2 ]_vars

C25_Witness ==
    /\ event.kind \in {"ll_control", "ll_terminate"}
    /\ event.key \in DOMAIN access_addr_map
    /\ access_addr_map[event.key] \in DOMAIN connections
    /\ (rx[9] \div 8) % 2 = 1
    /\ connections[access_addr_map[event.key]].rx_sn = 1
    /\ connections[access_addr_map[event.key]].tx_nesn = 0

\* C26: a host ACL packet on a handle with a record makes the bridge send
\* exactly one LL data frame (unless sendto raises): the record's access
\* address, LLID 2 for pb_flag 0 or 2 and LLID 1 for pb_flag 1, NESN and SN
\* as tx_nesn and tx_sn were when the packet was read, MD 0, the payload of
\* the ACL packet unchanged, and 00 00 00 in place of the CRC.
C26_LlDataFromAcl ==
    [][ ( /\ pc = "select" /\ pc' = "select"
          /\ event'.kind = "acl"
          /\ event'.key \in DOMAIN connections )
        => LET conn == connections[event'.key]
               aa == conn.access_addr
               pb_flag == (rx'[3] \div 16) % 4
               payload == SubSeq(rx', 6, Len(rx'))
               frame == SubSeq(renode_tx'[1], 5, Len(renode_tx'[1]))
               llid == frame[5] % 4
           IN  /\ Len(renode_tx') = 1
               /\ renode_tx'[1][1] = PKT_TYPE_RX
               /\ SubSeq(frame, 1, 4) = <<aa[2] % 256, aa[2] \div 256, aa[1] % 256, aa[1] \div 256>>
               /\ pb_flag \in {0, 2} => llid = DATA_START
               /\ pb_flag = 1 => llid = DATA_CONT
               /\ frame[5] = llid + 4 * conn.tx_nesn + 8 * conn.tx_sn
               /\ SubSeq(frame, 7, Len(frame) - 3) = payload
               /\ SubSeq(frame, Len(frame) - 2, Len(frame)) = <<0, 0, 0>> ]_vars

C26_Witness ==
    /\ pc = "select" /\ running
    /\ event.kind = "acl"
    /\ Len(renode_tx) = 1
    /\ Len(renode_tx[1]) = 16
    /\ SubSeq(renode_tx[1], 9, 16) = <<1 + 4 + 8, 3, 2, 170, 187, 0, 0, 0>>

\* C27: the Length field (the second header byte) of the LL data frame
\* sent for a host ACL packet is the number of payload bytes the frame
\* carries, for every payload the bridge takes out of one read.
C27_LengthField ==
    [][ ( /\ pc = "select" /\ pc' = "select"
          /\ event'.kind = "acl"
          /\ event'.key \in DOMAIN connections )
        => /\ Len(renode_tx') = 1
           /\ renode_tx'[1][10] = Len(renode_tx'[1]) - 13 ]_vars

\* C28: the record filed on a successful LE Connection Complete (subevent
\* 0x01, or 0x0A with twelve more bytes before the interval) has the channel
\* map of all 37 channels, win_size 1, win_offset 0, the interval, latency
\* and timeout of the event, the peer address and its type as init_addr and
\* init_addr_type, the advertiser address of the last advertising PDU
\* accepted (six zero bytes before the first) as adv_addr, current_channel 0,
\* tx_sn = tx_nesn = rx_sn = 0, and is_connected true.
C28_NewRecordFields ==
    pc = "send_connect_ind"
    => LET conn == connections[cur]
           off == IF rx[4] = 10 THEN 12 ELSE 0
       IN  /\ conn.conn_handle = rx[6] + 256 * rx[7]
           /\ conn.channel_map = <<255, 255, 255, 255, 31>>
           /\ conn.unmapped_channels = [k \in 1..37 |-> k - 1]
           /\ conn.win_size = 1 /\ conn.win_offset = 0
           /\ conn.interval = rx[16 + off] + 256 * rx[17 + off]
           /\ conn.latency = rx[18 + off] + 256 * rx[19 + off]
           /\ conn.timeout = rx[20 + off] + 256 * rx[21 + off]
           /\ conn.init_addr_type = rx[9]
           /\ conn.init_addr = SubSeq(rx, 10, 15)
           /\ conn.adv_addr = IF event.kind = "conn_complete" /\ prev_ad # None
                              THEN AdvAddrOf(prev_ad)
                              ELSE <<0, 0, 0, 0, 0, 0>>
           /\ conn.current_channel = 0
           /\ conn.tx_sn = 0 /\ conn.tx_nesn = 0 /\ conn.rx_sn = 0
           /\ conn.is_connected

C28_Witness ==
    /\ pc = "send_connect_ind"
    /\ connections[cur].adv_addr = OtherAdvAddr
    /\ connections[cur].timeout = 200
    /\ prev_ad = <<>>

\* C29: an LE Connection Complete or LE Enhanced Connection Complete with a
\* status other than 0 is ignored: no record is filed, connections and
\* access_addr_map stay as they are, and nothing is sent to the simulator.
C29_FailedConnectionIgnored ==
    [][ (pc = "select" /\ event'.kind = "conn_failed")
        => /\ connections' = connections
           /\ access_addr_map' = access_addr_map
           /\ renode_tx' = <<>>
           /\ pc' = "select" ]_vars

C29_Witness ==
    /\ pc = "select" /\ running
    /\ event.kind = "conn_failed"
    /\ rx[4] = 10 /\ rx[5] = 62
    /\ event.key \in DOMAIN connections

\* C30: what an LE Connection Complete does is a function of its status,
\* handle, peer address type, peer address, interval, latency and timeout
\* and of the values drawn, the same function for subevent 0x01 and for
\* subevent 0x0A (whose interval, latency and timeout lie twelve bytes
\* further on): the record filed under the handle, the entry of
\* access_addr_map, and the CONNECT_IND sent for that record.
C30_EnhancedSameAsPlain ==
    /\ [][ (pc = "select" /\ event'.kind = "conn_complete")
           => LET off == IF rx'[4] = 10 THEN 12 ELSE 0
                  h == rx'[6] + 256 * rx'[7]
                  drawn == connections'[h]
                  conn == ConnectionState(h, drawn.access_addr, drawn.crc_init,
                                          SubSeq(rx', 10, 15), rx'[9], adv_addr,
                                          rx'[16 + off] + 256 * rx'[17 + off],
                                          rx'[18 + off] + 256 * rx'[19 + off],
                                          rx'[20 + off] + 256 * rx'[21 + off],
                                          drawn.hop_increment)
              IN  /\ rx'[4] \in {1, 10}
                  /\ connections' = Put(connections, h, conn)
                  /\ access_addr_map' = Put(access_addr_map, conn.access_addr, h)
                  /\ renode_tx' = <<>>
                  /\ pc' = "send_connect_ind" /\ cur' = h ]_vars
    /\ [][ (pc = "send_connect_ind" /\ pc' = "select")
           => renode_tx' = <<send_to_renode(37, connect_ind_frame(connections[cur]))>> ]_vars

C30_Witness ==
    /\ pc = "select" /\ running
    /\ event.kind = "conn_complete"
    /\ rx[4] = 10
    /\ Len(renode_tx) = 1
    /\ event.key \in DOMAIN connections
    /\ connections[event.key].interval = 24
    /\ connections[event.key].timeout = 200

\* C31: a control PDU (LLID 3) of the simulator on an access address that
\* resolves to a record, with an empty payload or an opcode other than 0x02,
\* does not terminate: the record stays under its handle and its access
\* address, and no frame is sent; with opcode 0x02 the termination starts.
C31_OnlyTerminateIndTerminates ==
    [][ ( /\ pc = "select"
          /\ event'.kind \in {"ll_control", "ll_terminate"}
          /\ lookup_by_aa(connections, access_addr_map, event'.key) # {} )
        => IF event'.kind = "ll_control"
           THEN /\ renode_tx' = <<>> /\ hci_tx' = <<>>
                /\ pc' = "select"
                /\ DOMAIN connections' = DOMAIN connections
                /\ access_addr_map' = access_addr_map
           ELSE pc' \in {"disconnect_cleanup", "crashed"} ]_vars

C31_Witness ==
    /\ pc = "select" /\ running
    /\ event.kind = "ll_control"
    /\ Len(rx) = 15 /\ rx[11] = 12
    /\ lookup_by_aa(connections, access_addr_map, event.key) # {}
    /\ renode_tx = <<>>

\* C32: one call of next_channel takes the candidate channel
\* (current_channel + hop_increment) mod 37 when the used-channel list holds
\* it, and otherwise the entry of the list at index candidate mod the
\* length of the list; it adds one to event_counter, changes nothing else,
\* and leaves current_channel a member of the used-channel list.
C32_NextChannel ==
    [][ (pc = "next_channel" /\ connections' # connections)
        => LET conn == connections[cur]
               after == connections'[cur]
               used == conn.unmapped_channels
               candidate == (conn.current_channel + conn.hop_increment) % 37
           IN  /\ after.current_channel
                    = IF \E k \in 1..Len(used) : used[k] = candidate
                      THEN candidate
                      ELSE used[(candidate % Len(used)) + 1]
               /\ after.event_counter = conn.event_counter + 1
               /\ after = [conn EXCEPT !.current_channel = after.current_channel,
                                       !.event_counter = after.event_counter]
               /\ \E k \in 1..Len(after.unmapped_channels) :
                     after.unmapped_channels[k] = after.current_channel ]_vars

\* A hop whose candidate channel is not in the used-channel list.
C32_Witness ==
    /\ pc = "next_channel"
    /\ event.kind = "next_channel"
    /\ connections[cur].event_counter >= 2
    /\ Len(connections[cur].unmapped_channels) = 3
    /\ ~InSeq(event.key, connections[cur].unmapped_channels)
    /\ InSeq(connections[cur].current_channel, connections[cur].unmapped_channels)

\* C33: a TX datagram of the simulator whose frame has the advertising
\* access address and a length byte that, plus 6, exceeds the length of the
\* frame is rejected by both programs: adv_addr and the remembered AD data
\* stay as they are, and nothing is handed to the host stack (no HCI
\* command, no advertisement update, no callback posted, no D-Bus call
\* started).
C33_OverrunRejected ==
    [][ ( /\ pc = "select"
          /\ event'.kind \in {"adv", "scan_rsp", "adv_other", "adv_short", "adv_overrun"}
          /\ Len(rx') >= 4
          /\ At(rx', 0) = PKT_TYPE_TX
          /\ LET frame == Slice(rx', 4, 4 + unpack_H(Slice(rx', 2, 4)))
             IN  /\ Len(frame) >= 6
                 /\ unpack_I(Slice(frame, 0, 4)) = BLE_ADV_ACCESS_ADDR
                 /\ At(frame, 5) + 6 > Len(frame) )
        => /\ UNCHANGED <<adv_addr, current_adv_data>>
           /\ adv_updates' = <<>>
           /\ hci_tx' = <<>>
           /\ Len(glib_idle') <= Len(glib_idle)
           /\ pc' # "register_advertisement" ]_vars

\* The frame of 18 bytes with length byte 13 was read after an advertisement
\* had been remembered, by either program.
C33_Witness ==
    /\ pc = "select" /\ running
    /\ event.kind = "adv_overrun"
    /\ Len(rx) = 22 /\ rx[10] = 13
    /\ current_adv_data = <<2, 1, 6>>
    /\ adv_addr = AdvAddr
    /\ adv_updates = <<>>

\* C34: the handle of every record is a 12-bit number, 0..0x0FFF, and the
\* record is the one the ACL path finds under handle_flags & 0x0FFF of a
\* packet addressed to the handle its Connection Complete reported.
C34_HandleIs12Bit ==
    \A h \in DOMAIN connections :
        /\ connections[h].conn_handle = h
        /\ h \in 0..4095
        /\ lookup_by_handle(connections, h % 4096) = {connections[h]}

C36_NoCrossDelivery ==
    [][ ( /\ pc = "select"
          /\ event'.kind \in {"data", "data_reserved", "ll_control", "ll_terminate"} )
        => /\ hci_tx' # <<>>
              => \E h \in DOMAIN connections :
                     /\ h % 4096 = (hci_tx'[1][2] + 256 * hci_tx'[1][3]) % 4096
                     /\ connections[h].access_addr = event'.key
           /\ pc' = "disconnect_cleanup"
              => /\ cur' \in DOMAIN connections
                 /\ connections[cur'].access_addr = event'.key ]_vars

\* C37: the NESN bit of every LL data PDU and of every LL_TERMINATE_IND the
\* bridge sends on a connection is the complement of the SN bit of the most
\* recent data-channel PDU the simulator sent on that connection (on the
\* access address of its record), and 0 when there was none since the
\* record was created.
C37_NesnAcksLastSn ==
    [][ (pc = "select" /\ renode_tx' # <<>> /\ event'.kind # "conn_complete")
        => LET h == IF pc' = "disconnect_cleanup" THEN cur' ELSE event'.key
               nesn == (renode_tx'[1][9] \div 4) % 2
           IN  /\ h \in DOMAIN hist'
               /\ nesn = IF hist'[h].sim_sn = -1 THEN 0 ELSE 1 - hist'[h].sim_sn ]_vars

\* C38: with the D-Bus manager or in dry-run no raw HCI socket is held, so
\* no HCI event or ACL packet is ever read: connections and access_addr_map
\* are empty in every state, no datagram (no CONNECT_IND) is sent to the
\* simulator, and a data-channel frame of the simulator changes nothing and
\* produces nothing.
C38_NoHciNoConnections ==
    /\ []( (dbus_manager \/ dry_run)
           => /\ ~hci_sock
              /\ connections = EmptyDict
              /\ access_addr_map = EmptyDict
              /\ renode_tx = <<>>
              /\ event.kind \notin {"conn_complete", "conn_failed", "disconnection_complete",
                                    "acl", "hci_other"} )
    /\ [][ ( /\ dbus_manager \/ dry_run
             /\ pc = "select"
             /\ event'.kind \in {"data", "data_reserved", "ll_control", "ll_terminate"} )
           => /\ UNCHANGED bridgeVars
              /\ renode_tx' = <<>> /\ hci_tx' = <<>> /\ adv_updates' = <<>>
              /\ pc' = "select" /\ running' ]_vars

\* ble_bridge.py with the D-Bus manager and an advertisement exported read a
\* data PDU of the simulator.
C38_Witness ==
    /\ script = "ble_bridge" /\ dbus_manager
    /\ pc = "select" /\ running
    /\ event.kind = "data"
    /\ rx # <<>>
    /\ advertisement # <<>>
    /\ connections = EmptyDict
    /\ renode_tx = <<>> /\ hci_tx = <<>>

====
